---- MODULE Spec2Model ----
(***************************************************************************)
(* Hope Remote Log: the log normalisation / sequencing engine              *)
(* (utils/logProcessor.js), the upload routes, and the buffered batch      *)
(* pipeline (services/batchProcessor.js, utils/filesystem.js).             *)
(*                                                                         *)
(* Time.  An instant is a record [sec, ms]: whole seconds since            *)
(* 2025-01-01T00:00:00Z and the millisecond field.  The years 2025..2027   *)
(* are all 365 days long, so the calendar arithmetic of Date.UTC and of    *)
(* the Date getters is exact on that range.  An ISO-8601 string (the       *)
(* output of toISOString) is the record [Y, Mo, D, h, mi, s, ms]; it is    *)
(* formatted from an instant and parsed back by calendar arithmetic.       *)
(*                                                                         *)
(* A raw log line is a record: match says whether the line starts with     *)
(* the `MMM D HH:MM:SS` prefix the regular expressions look for, mon, day, *)
(* hh, mm, ss are the captured groups and text is the whole line.          *)
(***************************************************************************)
EXTENDS Integers, Sequences, FiniteSets, TLC

VARIABLES
    clk,              \* the wall clock: index of the current clock point
    tz,               \* the server's local timezone offset from UTC, in hours
    xdev,             \* whether the buffer directories lie on different volumes
    recentRequests,   \* LogProcessor.recentRequests
    timestampCounters,\* LogProcessor.timestampCounters (process-lifetime map)
    reqs,             \* the upload requests, in arrival order
    incoming,         \* directory incoming/ : filename -> file content
    processing,       \* directory processing/
    failed,           \* directory failed/
    statusFile,       \* status/last_run.json
    statusTmp,        \* status/last_run.json.tmp
    lastBatchRun,     \* what GET /api/stats last read from the status file
    storage,          \* the objects put to the S3 bucket
    isProcessing,     \* BatchProcessor.isProcessing
    runs,             \* the invocations of BatchProcessor.run, in trigger order
    faults,           \* number of I/O failures the environment has injected
    suffixes,         \* number of random suffixes drawn by generateS3Key
    skipLog           \* number of "already in progress, skipping" log lines

vars == <<clk, tz, xdev, recentRequests, timestampCounters, reqs, incoming, processing,
          failed, statusFile, statusTmp, lastBatchRun, storage, isProcessing, runs, faults,
          suffixes, skipLog>>

ingestVars == <<recentRequests, timestampCounters, reqs>>
dirVars == <<incoming, processing, failed, storage>>
statusVars == <<statusFile, statusTmp, lastBatchRun>>
cycleVars == <<statusVars, isProcessing, runs, suffixes, skipLog>>

-----------------------------------------------------------------------------
(* Bounds of the model *)

MaxTick == 1          \* clock points 0..MaxTick
MaxRequests == 2      \* upload requests per behaviour
MaxLines == 2         \* raw lines per submission (ingestion specification)
MaxPipeLines == 1     \* raw lines per submission (pipeline specification)
MaxRuns == 2          \* cron triggers per behaviour
MaxFaults == 1        \* injected I/O failures per behaviour
MaxIdleTick == 2      \* clock points 0..MaxIdleTick (rate specification)
MaxBurst == 1000      \* repeats of the first line of a submission (burst specification)
MaxTail == 2          \* lines after the repeats (overflow specification)

(* Program constants *)

SourceOffsetHours == 7     \* Asia/Bangkok, UTC+7
RateWindowMinutes == 5
maxRetries == 3

-----------------------------------------------------------------------------
(* Calendar arithmetic of the JavaScript Date object, on 2025..2027 *)

SecPerMin == 60
SecPerHour == 60 * SecPerMin
SecPerDay == 24 * SecPerHour

DaysBefore == <<0, 31, 59, 90, 120, 151, 181, 212, 243, 273, 304, 334>>
DaysPerYear == DaysBefore[12] + 31

\* Date.UTC(year, monthIndex, day, hours, minutes, seconds), in seconds;
\* out-of-range fields carry over as they do in JavaScript
DateUTC(year, monthIndex, day, hours, minutes, seconds) ==
    ((year - 2025) * DaysPerYear + DaysBefore[monthIndex + 1] + (day - 1)) * SecPerDay
      + hours * SecPerHour + minutes * SecPerMin + seconds

MonthOfDay(doy) ==
    CHOOSE m \in 1..12 :
        /\ DaysBefore[m] <= doy
        /\ (m = 12 \/ doy < DaysBefore[m + 1])

\* the calendar fields of an instant given in seconds
FieldsOf(sec) ==
    LET days == sec \div SecPerDay
        doy  == days % DaysPerYear
        mo   == MonthOfDay(doy)
    IN  [Y  |-> 2025 + days \div DaysPerYear,
         Mo |-> mo,
         D  |-> doy - DaysBefore[mo] + 1,
         h  |-> (sec % SecPerDay) \div SecPerHour,
         mi |-> (sec % SecPerHour) \div SecPerMin,
         s  |-> sec % SecPerMin]

\* Date.prototype.toISOString
toISOString(inst) ==
    LET f == FieldsOf(inst.sec)
    IN  [Y |-> f.Y, Mo |-> f.Mo, D |-> f.D, h |-> f.h, mi |-> f.mi, s |-> f.s,
         ms |-> inst.ms]

\* new Date(isoString)
parseISO(iso) ==
    [sec |-> DateUTC(iso.Y, iso.Mo - 1, iso.D, iso.h, iso.mi, iso.s), ms |-> iso.ms]

\* the local-time getters getFullYear/getMonth/getDate/getHours of an instant
LocalFields(inst) == FieldsOf(inst.sec + tz * SecPerHour)

-----------------------------------------------------------------------------
(* The wall clock.  Clock points alternate between the last second of an  *)
(* hour and the first second of the next one; point 0 is                  *)
(* 2026-09-04T23:59:59Z, so the step 0 -> 1 crosses an hour and a day.    *)

ClockOrigin == DateUTC(2026, 8, 4, 23, 59, 59)

ClockAt(i) ==
    [sec |-> ClockOrigin + ((i + 1) \div 2) * SecPerHour - (IF i % 2 = 0 THEN 0 ELSE SecPerHour - 1),
     ms  |-> 0]

\* Date.now() / new Date()
Now == ClockAt(clk)

-----------------------------------------------------------------------------
(* Raw log lines *)

Months == <<"Jan", "Feb", "Mar", "Apr", "May", "Jun",
            "Jul", "Aug", "Sep", "Oct", "Nov", "Dec">>

RawLine(mt, mon, day, hh, mm, ss, text) ==
    [match |-> mt, mon |-> mon, day |-> day, hh |-> hh, mm |-> mm, ss |-> ss, text |-> text]

LBoot     == RawLine(TRUE, "Sep", 4, 12, 53, 1, "Sep 04 12:53:01 unit-a boot")
LReady    == RawLine(TRUE, "Sep", 4, 12, 53, 1, "Sep 04 12:53:01 unit-a ready")
LCur      == RawLine(TRUE, "Sep", 5, 6, 59, 58, "Sep 05 06:59:58 unit-a tick")
LBadMonth == RawLine(TRUE, "Foo", 4, 12, 53, 1, "Foo 04 12:53:01 unit-a odd")
LNoTs     == RawLine(FALSE, "", 0, 0, 0, 0, "kernel: no timestamp here")
LEmpty    == RawLine(FALSE, "", 0, 0, 0, 0, "")
LNext     == RawLine(TRUE, "Sep", 4, 12, 53, 2, "Sep 04 12:53:02 unit-a up")

DeviceId == "unit-a"

-----------------------------------------------------------------------------
(* LogProcessor *)

NoTimestamp == [ok |-> FALSE]

\* LogProcessor.getTimestampFromLog(logLine, secondIndex), called at instant `at`
getTimestampFromLog(logLine, secondIndex, at) ==
    IF ~logLine.match THEN NoTimestamp
    ELSE IF \A i \in 1..12 : Months[i] # logLine.mon THEN NoTimestamp
    ELSE
        LET monthIndex == (CHOOSE i \in 1..12 : Months[i] = logLine.mon) - 1
            year == LocalFields(at).Y
            utc  == DateUTC(year, monthIndex, logLine.day, logLine.hh, logLine.mm, logLine.ss)
            adj  == utc - SourceOffsetHours * SecPerHour
            date == [sec |-> adj + secondIndex \div 1000, ms |-> secondIndex % 1000]
        IN  [ok |-> TRUE, iso |-> toISOString(date)]

\* a variant of getHourKey that reads the UTC getters instead of the local ones
getHourKeyUTC(timestamp) ==
    LET f == FieldsOf(timestamp.sec) IN <<f.Y, f.Mo, f.D, f.h>>

\* LogProcessor.getHourKey(timestamp): YYYY-MM-DD-HH from the local getters
getHourKey(timestamp) ==
    LET f == LocalFields(timestamp) IN <<f.Y, f.Mo, f.D, f.h>>

\* file names: `${hourKey}.log`, `${file}.gz`, `${file}.meta`
LogName(hourKey) == [key |-> hourKey, ext |-> "log"]
GzName(name) == [name EXCEPT !.ext = "log.gz"]
\* a variant that names the sidecar after the compressed artifact
MetaNameOfGz(name) == [name EXCEPT !.ext = "log.gz.meta"]

MetaName(name) == [name EXCEPT !.ext = "log.meta"]

\* baseTimestamp.substring(0, 19) + "Z"
SecondKeyOf(iso) == <<iso.Y, iso.Mo, iso.D, iso.h, iso.mi, iso.s>>

\* a variant of the counter lookup that starts counting at one
CounterGetFromOne(counters, key) == IF key \in DOMAIN counters THEN counters[key] ELSE 1

\* Map.get(key) || 0
CounterGet(counters, key) == IF key \in DOMAIN counters THEN counters[key] ELSE 0

\* Map.set(key, value)
MapSet(map, key, value) ==
    [k \in DOMAIN map \cup {key} |-> IF k = key THEN value ELSE map[k]]

EmptyMap == [k \in {} |-> 0]

\* LogProcessor.trackRequest
trackRequest(recent, at) ==
    LET pushed == Append(recent, at.sec)
        fiveMinutesAgo == at.sec - RateWindowMinutes * SecPerMin
    IN  SelectSeq(pushed, LAMBDA t : t > fiveMinutesAgo)

\* a variant of the fallback that stamps an unparseable line with the epoch
\* instead of the current time
ResolveTimestampEpoch(line, currentCount, at) ==
    LET baseTimestamp == getTimestampFromLog(line, 0, at)
        final         == getTimestampFromLog(line, currentCount, at)
        epoch         == [sec |-> 0, ms |-> 0]
    IN  IF ~baseTimestamp.ok THEN toISOString(epoch)
        ELSE IF final.ok THEN final.iso ELSE toISOString(epoch)

\* LogProcessor.getIngestionRate, in tenths: parseFloat((length / 5).toFixed(1))
\* (a count divided by 5 has one decimal, nothing is rounded away)
getIngestionRate(recent) == (Len(recent) * 10) \div RateWindowMinutes

\* a variant that stamps every line with the current time
ResolveTimestampNow(line, currentCount, at) == toISOString(at)

\* the timestamp given to a line (the if/else of the loop body): the current
\* time when the line has no timestamp, else its timestamp with the counter
\* as millisecond index
ResolveTimestamp(line, currentCount, at) ==
    LET baseTimestamp == getTimestampFromLog(line, 0, at)
        final         == getTimestampFromLog(line, currentCount, at)
    IN  IF ~baseTimestamp.ok THEN toISOString(at)
        ELSE IF final.ok THEN final.iso ELSE toISOString(at)

\* a variant that files an entry under the hour of its arrival
BucketOfArrival(logTimestamp, at) == LogName(getHourKey(at))

\* the file an entry goes to: getHourKey(new Date(logTimestamp)) + ".log";
\* `at`, the time of arrival, plays no part
BucketOf(logTimestamp, at) == LogName(getHourKey(parseISO(logTimestamp)))

\* one iteration of the loop over logLines in processLogContentLineByLine:
\* the request's secondCounters and collected entries after `line`
LineStep(req, line, at) ==
    LET baseTimestamp == getTimestampFromLog(line, 0, at)
        secondKey     == SecondKeyOf(baseTimestamp.iso)
        currentCount  == IF baseTimestamp.ok
                         THEN CounterGet(req.secondCounters, secondKey) ELSE -1
        logTimestamp  == ResolveTimestamp(line, currentCount, at)
        logEntry      == [device_id |-> req.deviceId, log_timestamp |-> logTimestamp,
                          message |-> line]
    IN  [req EXCEPT
            !.n = @ + 1,
            !.raw = Append(@, line),
            !.secondCounters = IF baseTimestamp.ok
                               THEN MapSet(@, secondKey, currentCount + 1) ELSE @,
            !.entries = Append(@, [file |-> BucketOf(logTimestamp, at),
                                   entry |-> logEntry,
                                   parsed |-> baseTimestamp.ok,
                                   hint |-> currentCount,
                                   at |-> at,
                                   secondKey |-> IF baseTimestamp.ok THEN secondKey ELSE <<>>])]

\* the files a request's entries were grouped into (fileEntries.keys())
FilesOf(req) == {req.entries[i].file : i \in DOMAIN req.entries}

\* fileEntries.get(filename): the entries of one file, in input order
EntriesFor(req, filename) ==
    LET sel == SelectSeq(req.entries, LAMBDA e : e.file = filename)
    IN  [i \in DOMAIN sel |-> sel[i].entry]

\* logContent.split("\n").filter((line) => line.length > 0)
logLines(raw) == SelectSeq(raw, LAMBDA line : line.text # "")

\* a variant of the return value that counts the empty lines as well
ReturnedAllLines(req) ==
    IF Len(logLines(req.raw)) = 0
    THEN [success |-> FALSE, linesProcessed |-> 0, filesWritten |-> 0]
    ELSE [success |-> TRUE, linesProcessed |-> Len(req.raw),
          filesWritten |-> Cardinality(FilesOf(req))]

\* the value processLogContentLineByLine returns when it does not throw
Returned(req) ==
    IF Len(logLines(req.raw)) = 0
    THEN [success |-> FALSE, linesProcessed |-> 0, filesWritten |-> 0]
    ELSE [success |-> TRUE, linesProcessed |-> Len(logLines(req.raw)),
          filesWritten |-> Cardinality(FilesOf(req))]

\* receivedAt is the time of the call, the one trackRequest pushes
NewRequest(route) ==
    [route |-> route, state |-> "parsing", deviceId |-> DeviceId, receivedAt |-> Now,
     n |-> 0, raw |-> <<>>,
     secondCounters |-> EmptyMap, entries |-> <<>>,
     pending |-> {}, wrote |-> EmptyMap, done |-> {}, errs |-> {}]

\* a synchronous section of a handler is running (JavaScript runs it to completion)
Busy == \E r \in DOMAIN reqs : reqs[r].state = "parsing"

\* the legacy path's new Date(`${timestampStr} ${currentYear}`): the prefix read
\* as a local time; an unknown month or an out-of-range field gives Invalid Date
LegacyDateValid(logLine) ==
    /\ \E i \in 1..12 : Months[i] = logLine.mon
    /\ logLine.day \in 1..31
    /\ logLine.hh \in 0..23
    /\ logLine.mm \in 0..59
    /\ logLine.ss \in 0..59

\* lexicographic order of two second-keys (string comparison of the ISO prefixes)
RECURSIVE KeyLess(_, _)
KeyLess(a, b) ==
    IF a = <<>> \/ b = <<>> THEN FALSE
    ELSE IF Head(a) # Head(b) THEN Head(a) < Head(b)
    ELSE KeyLess(Tail(a), Tail(b))

\* LogProcessor.formatTimestampKey
formatTimestampKey(timestamp) == SecondKeyOf(toISOString(timestamp))

\* a variant of cleanOldCounters that keeps every counter
cleanOldCountersNone(counters, at) == counters

\* LogProcessor.cleanOldCounters
cleanOldCounters(counters, at) ==
    LET oneHourAgo == [sec |-> at.sec - SecPerHour, ms |-> at.ms]
        cutoffKey  == formatTimestampKey(oneHourAgo)
    IN  [k \in {x \in DOMAIN counters : ~KeyLess(x, cutoffKey)} |-> counters[k]]

\* LogProcessor.parseAndEnhanceTimestamp (legacy): the outcome and the counter map
parseAndEnhanceTimestamp(logMessage, counters, at) ==
    IF ~logMessage.match
    THEN [ok |-> FALSE, error |-> "Invalid log format: timestamp not found",
          counters |-> counters]
    ELSE IF ~LegacyDateValid(logMessage)
    THEN [ok |-> FALSE, error |-> "Invalid timestamp format", counters |-> counters]
    ELSE
        LET currentYear == LocalFields(at).Y
            monthIndex  == (CHOOSE i \in 1..12 : Months[i] = logMessage.mon) - 1
            baseTimestamp ==
                [sec |-> DateUTC(currentYear, monthIndex, logMessage.day, logMessage.hh,
                                 logMessage.mm, logMessage.ss) - tz * SecPerHour,
                 ms |-> 0]
            secondKey == formatTimestampKey(baseTimestamp)
            counter   == CounterGet(counters, secondKey) + 1
            enhanced  == [sec |-> baseTimestamp.sec + counter \div 1000,
                          ms  |-> counter % 1000]
        IN  [ok |-> TRUE,
             baseTimestamp |-> baseTimestamp,
             enhancedTimestamp |-> toISOString(enhanced),
             hourKey |-> getHourKey(baseTimestamp),
             secondKey |-> secondKey,
             counter |-> counter,
             counters |-> cleanOldCounters(MapSet(counters, secondKey, counter), at)]

-----------------------------------------------------------------------------
(* Directories: a directory is a function from the names of its files to  *)
(* their contents                                                          *)

EmptyDir == [k \in {} |-> <<>>]

HasFile(dir, name) == name \in DOMAIN dir

\* write (create or replace) a file
PutFile(dir, name, content) ==
    [k \in DOMAIN dir \cup {name} |-> IF k = name THEN content ELSE dir[k]]

\* a variant of unlink that leaves the file where it is
RemoveFileKeep(dir, name) == dir

\* fs.unlink
RemoveFile(dir, name) == [k \in DOMAIN dir \ {name} |-> dir[k]]

\* fs.appendFile: create-if-absent, append at the end
AppendToFile(dir, name, content) ==
    PutFile(dir, name, IF HasFile(dir, name) THEN dir[name] \o content ELSE content)

-----------------------------------------------------------------------------
(* Ingestion: POST .../upload-logs -> processLogContentLineByLine, and the *)
(* legacy POST /upload-logs/:device_id -> processLogRequest                *)

\* the clock advances; it does so under any handler, synchronous or not
Tick ==
    /\ clk < MaxTick
    /\ clk' = clk + 1
    /\ UNCHANGED <<tz, xdev, ingestVars, dirVars, cycleVars, faults>>

\* time passes while the server is idle (as Tick, over a longer stretch)
Elapse ==
    /\ ~Busy
    /\ clk < MaxIdleTick
    /\ clk' = clk + 1
    /\ UNCHANGED <<tz, xdev, ingestVars, dirVars, cycleVars, faults>>

\* processLogContentLineByLine up to the loop: trackRequest, the empty maps
BeginUpload ==
    /\ ~Busy
    /\ Len(reqs) < MaxRequests
    /\ recentRequests' = trackRequest(recentRequests, Now)
    /\ reqs' = Append(reqs, NewRequest("batch"))
    /\ UNCHANGED <<clk, tz, xdev, timestampCounters, dirVars, cycleVars, faults>>

\* one raw line of the content: dropped when empty, else one loop iteration
ParseLine(r, line, maxLines) ==
    /\ r \in DOMAIN reqs
    /\ reqs[r].state = "parsing"
    /\ reqs[r].n < maxLines
    /\ reqs' = [reqs EXCEPT ![r] =
                  IF line.text = "" THEN [@ EXCEPT !.n = @ + 1, !.raw = Append(@, line)]
                  ELSE LineStep(@, line, Now)]
    /\ UNCHANGED <<clk, tz, xdev, recentRequests, timestampCounters, dirVars, cycleVars, faults>>

\* `count` iterations of the loop over logLines, for `count` copies of `line`
\* (the first half of them, then the others)
RECURSIVE LineSteps(_, _, _, _)
LineSteps(req, line, at, count) ==
    IF count = 0 \/ req.n < 0 THEN req
    ELSE IF count = 1 THEN LineStep(req, line, at)
    ELSE LET half == LineSteps(req, line, at, count \div 2)
         IN  IF half.n < 0 THEN half
             ELSE LineSteps(half, line, at, count - count \div 2)

\* one of up to MaxTail raw lines after the burst
ParseTail(r, line) ==
    /\ r \in DOMAIN reqs
    /\ reqs[r].n >= MaxBurst
    /\ ParseLine(r, line, MaxBurst + MaxTail)

\* the content starts with MaxBurst copies of one line (the loop runs through
\* them without a break)
ParseBurst(r, line) ==
    /\ r \in DOMAIN reqs
    /\ reqs[r].state = "parsing"
    /\ reqs[r].n = 0
    /\ line.text # ""
    /\ reqs' = [reqs EXCEPT ![r] = LineSteps(@, line, Now, MaxBurst)]
    /\ UNCHANGED <<clk, tz, xdev, recentRequests, timestampCounters, dirVars, cycleVars, faults>>

\* one more raw line after the burst
ParseAfterBurst(r, line) ==
    /\ r \in DOMAIN reqs
    /\ reqs[r].n >= MaxBurst
    /\ ParseLine(r, line, MaxBurst + 1)

\* the end of the content: no line -> {success: false} and the route answers
\* 202; otherwise one fs.appendFile per file is started
EndOfContent(r) ==
    /\ r \in DOMAIN reqs
    /\ reqs[r].state = "parsing"
    /\ reqs' = [reqs EXCEPT ![r] =
                  IF @.entries = <<>> THEN [@ EXCEPT !.state = "accepted"]
                  ELSE [@ EXCEPT !.state = "writing", !.pending = FilesOf(reqs[r])]]
    /\ UNCHANGED <<clk, tz, xdev, recentRequests, timestampCounters, dirVars, cycleVars, faults>>

\* a variant that resolves as soon as one append has resolved
SettleEarly(req) ==
    IF req.state # "writing" THEN req
    ELSE IF req.errs # {} THEN [req EXCEPT !.state = "failed"]
    ELSE [req EXCEPT !.state = "accepted"]

\* the state of a request after one of its appends has settled: Promise.all
\* rejects at the first rejection and resolves when every append has resolved
Settle(req) ==
    IF req.state # "writing" THEN req
    ELSE IF req.errs # {} THEN [req EXCEPT !.state = "failed"]
    ELSE IF req.pending = {} THEN [req EXCEPT !.state = "accepted"]
    ELSE req

\* a variant that writes the records of a group one by one
WriteChunksPerRecord(group) == [k \in DOMAIN group |-> <<group[k]>>]

\* the writes fs.appendFile(filePath, content) makes for a group of entries:
\* content is the joined text of the group, written by one write to the file
\* opened for appending
WriteChunks(group) == <<group>>

\* fs.appendFile(filePath, content): a write lands at the end of the file;
\* after the last one the append completes (wrote: the writes made so far)
AppendDone(r, f) ==
    /\ ~Busy
    /\ r \in DOMAIN reqs
    /\ f \in reqs[r].pending
    /\ LET chunks == WriteChunks(EntriesFor(reqs[r], f))
           n      == IF f \in DOMAIN reqs[r].wrote THEN reqs[r].wrote[f] + 1 ELSE 1
       IN  /\ incoming' = AppendToFile(incoming, f, chunks[n])
           /\ reqs' = [reqs EXCEPT ![r] =
                         IF n < Len(chunks)
                         THEN [@ EXCEPT !.wrote = MapSet(@, f, n)]
                         ELSE Settle([@ EXCEPT !.pending = @ \ {f}, !.done = @ \cup {f}])]
    /\ UNCHANGED <<clk, tz, xdev, recentRequests, timestampCounters, processing, failed,
                   storage, cycleVars, faults>>

\* fs.appendFile fails (disk full, permissions): nothing is written
AppendFail(r, f) ==
    /\ ~Busy
    /\ faults < MaxFaults
    /\ r \in DOMAIN reqs
    /\ f \in reqs[r].pending
    /\ faults' = faults + 1
    /\ reqs' = [reqs EXCEPT ![r] =
                  Settle([@ EXCEPT !.pending = @ \ {f}, !.errs = @ \cup {f}])]
    /\ UNCHANGED <<clk, tz, xdev, recentRequests, timestampCounters, dirVars, cycleVars>>

\* the legacy route: processLogRequest(device_id, body) with the body as one line
LegacyUpload(line) ==
    /\ ~Busy
    /\ Len(reqs) < MaxRequests
    /\ line.text # ""
    /\ recentRequests' = trackRequest(recentRequests, Now)
    /\ LET p == parseAndEnhanceTimestamp(line, timestampCounters, Now)
           base == [NewRequest("legacy") EXCEPT !.n = 1, !.raw = <<line>>]
       IN  /\ timestampCounters' = p.counters
           /\ reqs' = Append(reqs,
                 IF ~p.ok THEN [base EXCEPT !.state = "rejected"]
                 ELSE [base EXCEPT
                         !.state = "writing",
                         !.entries = <<[file |-> LogName(p.hourKey),
                                        entry |-> [device_id |-> DeviceId,
                                                   log_timestamp |-> p.enhancedTimestamp,
                                                   message |-> line],
                                        parsed |-> TRUE,
                                        hint |-> p.counter,
                                        at |-> Now,
                                        secondKey |-> p.secondKey]>>,
                         !.pending = {LogName(p.hourKey)}])
    /\ UNCHANGED <<clk, tz, xdev, dirVars, cycleVars, faults>>

-----------------------------------------------------------------------------
(* BatchProcessor: one record per invocation of run()                     *)

\* a file of the status directory that does not exist
NoStatus == [status |-> "none"]

\* no GET /api/stats has been answered yet
NotRead == [status |-> "not read"]

\* put and thrown record what happened to the swept files of the invocation:
\* the indices of those whose PutObject succeeded and of those for which
\* processFile threw
NewRun ==
    [pc |-> "status_running", startTime |-> Now, filesProcessed |-> 0,
     status |-> "success", currentHourKey |-> <<>>,
     incomingFiles |-> <<>>, i |-> 0, mv |-> "none",
     sweptFiles |-> <<>>, j |-> 0, retryCount |-> 0,
     error |-> "", criticalError |-> "",
     put |-> {}, thrown |-> {}]

\* the files of a directory listing in name order (readdir of a small directory)
RECURSIVE SortNames(_)
SortNames(S) ==
    IF S = {} THEN <<>>
    ELSE LET first == CHOOSE x \in S : \A y \in S : ~KeyLess(y.key, x.key)
         IN  <<first>> \o SortNames(S \ {first})

\* the current-hour key of sweepCompletedFiles: the hour of `new Date().getHours()`
\* read at hourAt, the date of a second `new Date()` read at dateAt
CurrentHourKey(hourAt, dateAt) ==
    LET d == LocalFields(dateAt)
    IN  <<d.Y, d.Mo, d.D, LocalFields(hourAt).h>>

\* a variant of the filter that selects every .log file
SweepFilterAll(filename, currentHourKey) == filename.ext = "log"

\* the listFiles filter of the sweep:
\* filename.endsWith(".log") && !filename.startsWith(currentHourKey)
SweepFilter(filename, currentHourKey) ==
    /\ filename.ext = "log"
    /\ filename.key # currentHourKey

\* a variant of the guard that never sees an active cycle
RunGuardOff == FALSE

\* the guard of run(): a cycle is already active
RunGuard == isProcessing

\* cron fires: run() up to its first await
Trigger ==
    /\ ~Busy
    /\ Len(runs) < MaxRuns
    /\ IF RunGuard
       THEN /\ runs' = Append(runs, [NewRun EXCEPT !.pc = "skipped"])
            /\ skipLog' = skipLog + 1
            /\ UNCHANGED isProcessing
       ELSE /\ runs' = Append(runs, NewRun)
            /\ isProcessing' = TRUE
            /\ UNCHANGED skipLog
    /\ UNCHANGED <<clk, tz, xdev, ingestVars, dirVars, statusVars, suffixes, faults>>

SetRun(i, r) == runs' = [runs EXCEPT ![i] = r]

At(i, pc) == i \in DOMAIN runs /\ runs[i].pc = pc

-----------------------------------------------------------------------------
(* FilesystemManager.writeJsonFile on the status directory, which holds    *)
(* last_run.json and, while a write is under way, last_run.json.tmp        *)

\* a file of the status directory that holds only the beginning of the JSON
\* text of `data`
Partial(data) == [partial |-> data]

statusPath == <<"last_run.json">>

\* a variant that writes the file in place
tempPathSame(filePath) == filePath

\* const tempPath = `${filePath}.tmp`
tempPath(filePath) == filePath \o <<"tmp">>

\* the content of a file of the status directory
ReadStatusDir(path) == IF path = statusPath THEN statusFile ELSE statusTmp

\* the status directory after `path` has been given `content`
WriteStatusDir(path, content) ==
    IF path = statusPath
    THEN statusFile' = content /\ UNCHANGED statusTmp
    ELSE statusTmp' = content /\ UNCHANGED statusFile

\* fs.rename(from, to) on the status directory
RenameStatusDir(from, to) ==
    IF from = to
    THEN UNCHANGED <<statusFile, statusTmp>>
    ELSE statusFile' = statusTmp /\ statusTmp' = NoStatus

\* the catch of writeJsonFile: fs.unlink(tempPath)
UnlinkTemp == WriteStatusDir(tempPath(statusPath), NoStatus)

\* the statusData that run() hands to updateStatus at its three call sites
StatusData(run, at) ==
    IF run.pc = "status_running"
    THEN [status |-> "running", started_at |-> toISOString(run.startTime)]
    ELSE IF run.pc = "final"
    THEN [status |-> run.status, finished_at |-> toISOString(at),
          duration_seconds |-> at.sec - run.startTime.sec,
          files_processed |-> run.filesProcessed]
    ELSE [status |-> "failed", finished_at |-> toISOString(at),
          error_message |-> run.criticalError]

StatusWrites == {"status_running", "final", "critical"}

\* updateStatus -> writeJsonFile: fs.writeFile(tempPath, ...) has created the
\* file and written part of the text
WriteTemp(i) ==
    /\ ~Busy
    /\ i \in DOMAIN runs
    /\ runs[i].pc \in StatusWrites /\ runs[i].mv = "none"
    /\ WriteStatusDir(tempPath(statusPath), Partial(StatusData(runs[i], Now)))
    /\ SetRun(i, [runs[i] EXCEPT !.mv = "write"])
    /\ UNCHANGED <<clk, tz, xdev, ingestVars, dirVars, lastBatchRun, isProcessing, suffixes,
                   skipLog, faults>>

\* fs.writeFile(tempPath, ...) completes: the whole text is in the file
WriteTempDone(i) ==
    /\ ~Busy
    /\ i \in DOMAIN runs
    /\ runs[i].pc \in StatusWrites /\ runs[i].mv = "write"
    /\ WriteStatusDir(tempPath(statusPath), ReadStatusDir(tempPath(statusPath)).partial)
    /\ SetRun(i, [runs[i] EXCEPT !.mv = "rename"])
    /\ UNCHANGED <<clk, tz, xdev, ingestVars, dirVars, lastBatchRun, isProcessing, suffixes,
                   skipLog, faults>>

\* updateStatus("running", {started_at}) succeeds: fs.rename(tempPath, filePath)
StatusRunning(i) ==
    /\ ~Busy
    /\ At(i, "status_running") /\ runs[i].mv = "rename"
    /\ RenameStatusDir(tempPath(statusPath), statusPath)
    /\ SetRun(i, [runs[i] EXCEPT !.pc = "sweep", !.mv = "none"])
    /\ UNCHANGED <<clk, tz, xdev, ingestVars, dirVars, lastBatchRun, isProcessing, suffixes,
                   skipLog, faults>>

\* updateStatus("running") throws (the write or the rename failed and the
\* temporary file was unlinked): the outer catch of run() takes over
StatusRunningFail(i) ==
    /\ ~Busy
    /\ At(i, "status_running")
    /\ faults < MaxFaults
    /\ faults' = faults + 1
    /\ UnlinkTemp
    /\ SetRun(i, [runs[i] EXCEPT !.pc = "critical", !.mv = "none",
                                 !.criticalError = "status write failed"])
    /\ UNCHANGED <<clk, tz, xdev, ingestVars, dirVars, lastBatchRun, isProcessing, suffixes,
                   skipLog>>

\* where a run goes once file i of the listing has been dealt with
AfterSweepFile(run) ==
    IF run.i < Len(run.incomingFiles)
    THEN [run EXCEPT !.i = @ + 1, !.mv = "rename"]
    ELSE IF run.sweptFiles = <<>>
    THEN [run EXCEPT !.pc = "final", !.mv = "none"]
    ELSE [run EXCEPT !.pc = "compress", !.mv = "none", !.j = 1, !.retryCount = 0]

\* sweepCompletedFiles up to the listing: the two clock reads (the clock may
\* advance between them), then the filtered listing of incoming/
SweepList(i, adv) ==
    /\ ~Busy
    /\ At(i, "sweep")
    /\ clk + adv <= MaxTick
    /\ clk' = clk + adv
    /\ LET key   == CurrentHourKey(ClockAt(clk), ClockAt(clk + adv))
           files == SortNames({f \in DOMAIN incoming : SweepFilter(f, key)})
       IN  SetRun(i, AfterSweepFile([runs[i] EXCEPT !.pc = "move", !.currentHourKey = key,
                                       !.incomingFiles = files, !.i = 0]))
    /\ UNCHANGED <<tz, xdev, ingestVars, dirVars, statusVars, isProcessing, suffixes, skipLog, faults>>

SweepFile(i) == runs[i].incomingFiles[runs[i].i]

\* a variant that returns none of the moved files
SweptNone(run, f) == run

Swept(run, f) == [run EXCEPT !.sweptFiles = Append(@, f)]

\* moveFile: fs.rename(source, destination) succeeds; the destination is replaced
SweepRename(i) ==
    /\ ~Busy
    /\ At(i, "move") /\ runs[i].mv = "rename"
    /\ ~xdev
    /\ HasFile(incoming, SweepFile(i))
    /\ processing' = PutFile(processing, SweepFile(i), incoming[SweepFile(i)])
    /\ incoming' = RemoveFile(incoming, SweepFile(i))
    /\ SetRun(i, AfterSweepFile(Swept(runs[i], SweepFile(i))))
    /\ UNCHANGED <<clk, tz, xdev, ingestVars, failed, storage, statusVars, isProcessing,
                   suffixes, skipLog, faults>>

\* fs.rename fails with EXDEV: moveFile falls back to copy-then-delete
SweepRenameFail(i) ==
    /\ ~Busy
    /\ At(i, "move") /\ runs[i].mv = "rename"
    /\ xdev
    /\ SetRun(i, [runs[i] EXCEPT !.mv = "copy"])
    /\ UNCHANGED <<clk, tz, xdev, ingestVars, dirVars, statusVars, isProcessing, suffixes,
                   skipLog, faults>>

\* fs.copyFile(source, destination) succeeds
SweepCopy(i) ==
    /\ ~Busy
    /\ At(i, "move") /\ runs[i].mv = "copy"
    /\ HasFile(incoming, SweepFile(i))
    /\ processing' = PutFile(processing, SweepFile(i), incoming[SweepFile(i)])
    /\ SetRun(i, [runs[i] EXCEPT !.mv = "unlink"])
    /\ UNCHANGED <<clk, tz, xdev, ingestVars, incoming, failed, storage, statusVars,
                   isProcessing, suffixes, skipLog, faults>>

\* fs.copyFile fails: moveFile throws, the sweep logs and skips the file
SweepCopyFail(i) ==
    /\ ~Busy
    /\ At(i, "move") /\ runs[i].mv = "copy"
    /\ faults < MaxFaults
    /\ faults' = faults + 1
    /\ SetRun(i, AfterSweepFile(runs[i]))
    /\ UNCHANGED <<clk, tz, xdev, ingestVars, dirVars, statusVars, isProcessing, suffixes, skipLog>>

\* fs.unlink(source) after the copy
SweepUnlink(i) ==
    /\ ~Busy
    /\ At(i, "move") /\ runs[i].mv = "unlink"
    /\ incoming' = RemoveFile(incoming, SweepFile(i))
    /\ SetRun(i, AfterSweepFile(Swept(runs[i], SweepFile(i))))
    /\ UNCHANGED <<clk, tz, xdev, ingestVars, processing, failed, storage, statusVars,
                   isProcessing, suffixes, skipLog, faults>>

\* fs.unlink(source) fails after the copy: moveFile throws, the file is skipped
SweepUnlinkFail(i) ==
    /\ ~Busy
    /\ At(i, "move") /\ runs[i].mv = "unlink"
    /\ faults < MaxFaults
    /\ faults' = faults + 1
    /\ SetRun(i, AfterSweepFile(runs[i]))
    /\ UNCHANGED <<clk, tz, xdev, ingestVars, dirVars, statusVars, isProcessing, suffixes, skipLog>>

-----------------------------------------------------------------------------
(* processFile: compress, upload with retries, clean up                   *)

ProcFile(i) == runs[i].sweptFiles[runs[i].j]

\* where a run goes once swept file j has been dealt with
AfterProcFile(run) ==
    IF run.j < Len(run.sweptFiles)
    THEN [run EXCEPT !.pc = "compress", !.j = @ + 1, !.retryCount = 0, !.mv = "none"]
    ELSE [run EXCEPT !.pc = "final", !.mv = "none"]

\* processFile threw `error`: run() calls handleFailedFile, which starts moveFile
ToQuarantine(run, error) ==
    [run EXCEPT !.pc = "quarantine", !.mv = "rename", !.error = error,
                !.thrown = @ \cup {run.j}]

\* compressFile succeeds: processing/<file>.gz holds the gzip of the file
Compress(i) ==
    /\ ~Busy
    /\ At(i, "compress")
    /\ HasFile(processing, ProcFile(i))
    /\ processing' = PutFile(processing, GzName(ProcFile(i)), processing[ProcFile(i)])
    /\ SetRun(i, [runs[i] EXCEPT !.pc = "upload"])
    /\ UNCHANGED <<clk, tz, xdev, ingestVars, incoming, failed, storage, statusVars,
                   isProcessing, suffixes, skipLog, faults>>

\* compressFile fails; the catch of processFile unlinks whatever .gz exists
CompressFail(i) ==
    /\ ~Busy
    /\ At(i, "compress")
    /\ faults < MaxFaults
    /\ faults' = faults + 1
    /\ SetRun(i, ToQuarantine(runs[i], "compress failed"))
    /\ UNCHANGED <<clk, tz, xdev, ingestVars, dirVars, statusVars, isProcessing, suffixes, skipLog>>

\* the file-name test of generateS3Key: /^(\d{4})-(\d{2})-(\d{2})-(\d{2})\.log$/
ValidName(filename) == filename.ext = "log" /\ Len(filename.key) = 4

\* the message of the error that uploadToS3 ends with: generateS3Key's
\* `Invalid filename format: ...` or the error of the last PutObject
UploadError(filename) ==
    IF ValidName(filename) THEN "upload failed" ELSE "invalid filename"

\* generateS3Key: the partition fields parsed back out of the file name and a
\* fresh random suffix
generateS3Key(filename, suffix) ==
    [year |-> filename.key[1], month |-> filename.key[2], day |-> filename.key[3],
     hour |-> filename.key[4], file |-> filename.key, suffix |-> suffix]

\* uploadToS3: the PutObject of one attempt succeeds
UploadOk(i) ==
    /\ ~Busy
    /\ At(i, "upload")
    /\ ValidName(ProcFile(i))
    /\ HasFile(processing, GzName(ProcFile(i)))
    /\ suffixes' = suffixes + 1
    /\ storage' = storage \cup {[key  |-> generateS3Key(ProcFile(i), suffixes + 1),
                                 body |-> processing[GzName(ProcFile(i))]]}
    /\ SetRun(i, [runs[i] EXCEPT !.pc = "cleanup", !.put = @ \cup {runs[i].j}])
    /\ UNCHANGED <<clk, tz, xdev, ingestVars, incoming, processing, failed, statusVars,
                   isProcessing, skipLog, faults>>

\* a variant of the retry test that gives up at the first failure
MayRetryNever(retryCount) == FALSE

\* a variant of the retry test that allows one retry more
MayRetryOffByOne(retryCount) == retryCount <= maxRetries

\* the retry test of uploadToS3's catch
MayRetry(retryCount) == retryCount < maxRetries

\* uploadToS3: an attempt fails (generateS3Key or the PutObject throws) and is
\* retried after its delay
UploadRetry(i) ==
    /\ ~Busy
    /\ At(i, "upload")
    /\ MayRetry(runs[i].retryCount)
    /\ suffixes' = suffixes + 1
    /\ SetRun(i, [runs[i] EXCEPT !.retryCount = @ + 1])
    /\ UNCHANGED <<clk, tz, xdev, ingestVars, dirVars, statusVars, isProcessing, skipLog, faults>>

\* uploadToS3: the last attempt fails and the error is thrown; the catch of
\* processFile unlinks the compressed file (gzRemoved: whether that worked)
UploadGiveUp(i, gzRemoved) ==
    /\ ~Busy
    /\ At(i, "upload")
    /\ ~MayRetry(runs[i].retryCount)
    /\ suffixes' = suffixes + 1
    /\ IF gzRemoved
       THEN /\ processing' = RemoveFile(processing, GzName(ProcFile(i)))
            /\ UNCHANGED faults
       ELSE /\ faults < MaxFaults
            /\ faults' = faults + 1
            /\ UNCHANGED processing
    /\ SetRun(i, ToQuarantine(runs[i], UploadError(ProcFile(i))))
    /\ UNCHANGED <<clk, tz, xdev, ingestVars, incoming, failed, storage, statusVars,
                   isProcessing, skipLog>>

\* uploadToS3 when the reply to a PutObject is lost: the object is stored, but
\* send() rejects (timeout, connection reset), and the attempt is retried
\* under the key of a new generateS3Key call
UploadLostRetry(i) ==
    /\ ~Busy
    /\ At(i, "upload")
    /\ ValidName(ProcFile(i))
    /\ HasFile(processing, GzName(ProcFile(i)))
    /\ MayRetry(runs[i].retryCount)
    /\ faults < MaxFaults
    /\ faults' = faults + 1
    /\ suffixes' = suffixes + 1
    /\ storage' = storage \cup {[key  |-> generateS3Key(ProcFile(i), suffixes + 1),
                                 body |-> processing[GzName(ProcFile(i))]]}
    /\ SetRun(i, [runs[i] EXCEPT !.retryCount = @ + 1])
    /\ UNCHANGED <<clk, tz, xdev, ingestVars, incoming, processing, failed, statusVars,
                   isProcessing, skipLog>>

\* the reply to the PutObject of the last attempt is lost: the object is
\* stored, the error is thrown and the catch of processFile unlinks the
\* compressed file
UploadLostGiveUp(i) ==
    /\ ~Busy
    /\ At(i, "upload")
    /\ ValidName(ProcFile(i))
    /\ HasFile(processing, GzName(ProcFile(i)))
    /\ ~MayRetry(runs[i].retryCount)
    /\ faults < MaxFaults
    /\ faults' = faults + 1
    /\ suffixes' = suffixes + 1
    /\ storage' = storage \cup {[key  |-> generateS3Key(ProcFile(i), suffixes + 1),
                                 body |-> processing[GzName(ProcFile(i))]]}
    /\ processing' = RemoveFile(processing, GzName(ProcFile(i)))
    /\ SetRun(i, ToQuarantine(runs[i], UploadError(ProcFile(i))))
    /\ UNCHANGED <<clk, tz, xdev, ingestVars, incoming, failed, statusVars,
                   isProcessing, skipLog>>

\* Promise.all of the two unlinks succeeds: the file is processed
Cleanup(i) ==
    /\ ~Busy
    /\ At(i, "cleanup")
    /\ processing' = RemoveFile(RemoveFile(processing, ProcFile(i)), GzName(ProcFile(i)))
    /\ SetRun(i, AfterProcFile([runs[i] EXCEPT !.filesProcessed = @ + 1]))
    /\ UNCHANGED <<clk, tz, xdev, ingestVars, incoming, failed, storage, statusVars,
                   isProcessing, suffixes, skipLog, faults>>

\* one of the two unlinks fails (which: the source when srcFails, else the
\* compressed file); the other one still happens, and the catch of processFile
\* unlinks the compressed file once more before rethrowing
CleanupFail(i, srcFails) ==
    /\ ~Busy
    /\ At(i, "cleanup")
    /\ faults < MaxFaults
    /\ faults' = faults + 1
    /\ processing' = IF srcFails
                     THEN RemoveFile(processing, GzName(ProcFile(i)))
                     ELSE RemoveFile(RemoveFile(processing, ProcFile(i)), GzName(ProcFile(i)))
    /\ SetRun(i, ToQuarantine(runs[i], "cleanup failed"))
    /\ UNCHANGED <<clk, tz, xdev, ingestVars, incoming, failed, storage, statusVars,
                   isProcessing, suffixes, skipLog>>

-----------------------------------------------------------------------------
(* handleFailedFile: move the file to failed/, write the .meta sidecar    *)

\* a variant in which the end of handleFailedFile reaches the outer catch of
\* run(), as an error thrown by it would
AfterQuarantineAbort(run) ==
    [run EXCEPT !.pc = "critical", !.mv = "none", !.status = "failed",
                !.criticalError = run.error]

\* a variant in which a failed file leaves the status of the cycle as it was
AfterQuarantineKeepStatus(run) == AfterProcFile(run)

\* handleFailedFile is over (its own errors are caught and logged): run() marks
\* the cycle failed and goes on with the next file
AfterQuarantine(run) == AfterProcFile([run EXCEPT !.status = "failed"])

\* a variant of the FailureRecord that drops the message of the error
FailureRecordNoMessage(run, at) ==
    [failed_at |-> toISOString(at), error_message |-> "", retry_attempts |-> maxRetries]

\* the FailureRecord written by handleFailedFile
FailureRecord(run, at) ==
    [failed_at |-> toISOString(at), error_message |-> run.error,
     retry_attempts |-> maxRetries]

\* moveFile: fs.rename(processing/<file>, failed/<file>) succeeds
QuarantineRename(i) ==
    /\ ~Busy
    /\ At(i, "quarantine") /\ runs[i].mv = "rename"
    /\ ~xdev
    /\ HasFile(processing, ProcFile(i))
    /\ failed' = PutFile(failed, ProcFile(i), processing[ProcFile(i)])
    /\ processing' = RemoveFile(processing, ProcFile(i))
    /\ SetRun(i, [runs[i] EXCEPT !.mv = "meta"])
    /\ UNCHANGED <<clk, tz, xdev, ingestVars, incoming, storage, statusVars, isProcessing,
                   suffixes, skipLog, faults>>

\* fs.rename fails with EXDEV although the file is there: copy-then-delete
QuarantineRenameFail(i) ==
    /\ ~Busy
    /\ At(i, "quarantine") /\ runs[i].mv = "rename"
    /\ HasFile(processing, ProcFile(i))
    /\ xdev
    /\ SetRun(i, [runs[i] EXCEPT !.mv = "copy"])
    /\ UNCHANGED <<clk, tz, xdev, ingestVars, dirVars, statusVars, isProcessing, suffixes,
                   skipLog, faults>>

\* the file is no longer in processing/ (the cleanup removed it): rename and
\* copyFile both fail with ENOENT, handleFailedFile logs and returns
QuarantineMissing(i) ==
    /\ ~Busy
    /\ At(i, "quarantine") /\ runs[i].mv = "rename"
    /\ ~HasFile(processing, ProcFile(i))
    /\ SetRun(i, AfterQuarantine(runs[i]))
    /\ UNCHANGED <<clk, tz, xdev, ingestVars, dirVars, statusVars, isProcessing, suffixes,
                   skipLog, faults>>

\* fs.copyFile succeeds
QuarantineCopy(i) ==
    /\ ~Busy
    /\ At(i, "quarantine") /\ runs[i].mv = "copy"
    /\ HasFile(processing, ProcFile(i))
    /\ failed' = PutFile(failed, ProcFile(i), processing[ProcFile(i)])
    /\ SetRun(i, [runs[i] EXCEPT !.mv = "unlink"])
    /\ UNCHANGED <<clk, tz, xdev, ingestVars, incoming, processing, storage, statusVars,
                   isProcessing, suffixes, skipLog, faults>>

\* fs.copyFile fails: handleFailedFile logs and returns
QuarantineCopyFail(i) ==
    /\ ~Busy
    /\ At(i, "quarantine") /\ runs[i].mv = "copy"
    /\ faults < MaxFaults
    /\ faults' = faults + 1
    /\ SetRun(i, AfterQuarantine(runs[i]))
    /\ UNCHANGED <<clk, tz, xdev, ingestVars, dirVars, statusVars, isProcessing, suffixes, skipLog>>

\* fs.unlink(source) after the copy
QuarantineUnlink(i) ==
    /\ ~Busy
    /\ At(i, "quarantine") /\ runs[i].mv = "unlink"
    /\ processing' = RemoveFile(processing, ProcFile(i))
    /\ SetRun(i, [runs[i] EXCEPT !.mv = "meta"])
    /\ UNCHANGED <<clk, tz, xdev, ingestVars, incoming, failed, storage, statusVars,
                   isProcessing, suffixes, skipLog, faults>>

\* fs.unlink(source) fails after the copy: handleFailedFile logs and returns
QuarantineUnlinkFail(i) ==
    /\ ~Busy
    /\ At(i, "quarantine") /\ runs[i].mv = "unlink"
    /\ faults < MaxFaults
    /\ faults' = faults + 1
    /\ SetRun(i, AfterQuarantine(runs[i]))
    /\ UNCHANGED <<clk, tz, xdev, ingestVars, dirVars, statusVars, isProcessing, suffixes, skipLog>>

\* writeJsonFile(metaFile, metadata) succeeds
WriteMeta(i) ==
    /\ ~Busy
    /\ At(i, "quarantine") /\ runs[i].mv = "meta"
    /\ failed' = PutFile(failed, MetaName(ProcFile(i)), FailureRecord(runs[i], Now))
    /\ SetRun(i, AfterQuarantine(runs[i]))
    /\ UNCHANGED <<clk, tz, xdev, ingestVars, incoming, processing, storage, statusVars,
                   isProcessing, suffixes, skipLog, faults>>

\* writeJsonFile(metaFile, metadata) fails: logged, no sidecar
WriteMetaFail(i) ==
    /\ ~Busy
    /\ At(i, "quarantine") /\ runs[i].mv = "meta"
    /\ faults < MaxFaults
    /\ faults' = faults + 1
    /\ SetRun(i, AfterQuarantine(runs[i]))
    /\ UNCHANGED <<clk, tz, xdev, ingestVars, dirVars, statusVars, isProcessing, suffixes, skipLog>>

-----------------------------------------------------------------------------
(* the end of run()                                                        *)

\* a variant of the finally block that keeps the guard set
ReleasedNever == TRUE

\* the finally block of run(): this.isProcessing = false
Released == FALSE

\* the final updateStatus(status, {finished_at, duration_seconds, files_processed})
\* succeeds; finally releases the guard
FinalStatus(i) ==
    /\ ~Busy
    /\ At(i, "final") /\ runs[i].mv = "rename"
    /\ RenameStatusDir(tempPath(statusPath), statusPath)
    /\ isProcessing' = Released
    /\ SetRun(i, [runs[i] EXCEPT !.pc = "done", !.mv = "none"])
    /\ UNCHANGED <<clk, tz, xdev, ingestVars, dirVars, lastBatchRun, suffixes, skipLog, faults>>

\* the final updateStatus throws: the outer catch takes over
FinalStatusFail(i) ==
    /\ ~Busy
    /\ At(i, "final")
    /\ faults < MaxFaults
    /\ faults' = faults + 1
    /\ UnlinkTemp
    /\ SetRun(i, [runs[i] EXCEPT !.pc = "critical", !.mv = "none",
                                 !.criticalError = "status write failed"])
    /\ UNCHANGED <<clk, tz, xdev, ingestVars, dirVars, lastBatchRun, isProcessing, suffixes,
                   skipLog>>

\* the outer catch: updateStatus("failed", {finished_at, error_message}) succeeds
CriticalStatus(i) ==
    /\ ~Busy
    /\ At(i, "critical") /\ runs[i].mv = "rename"
    /\ RenameStatusDir(tempPath(statusPath), statusPath)
    /\ isProcessing' = Released
    /\ SetRun(i, [runs[i] EXCEPT !.pc = "done", !.mv = "none"])
    /\ UNCHANGED <<clk, tz, xdev, ingestVars, dirVars, lastBatchRun, suffixes, skipLog, faults>>

\* the outer catch's updateStatus throws as well (what made the status write
\* fail is still there): finally releases the guard and run() rejects
CriticalStatusFail(i) ==
    /\ ~Busy
    /\ At(i, "critical")
    /\ UnlinkTemp
    /\ isProcessing' = Released
    /\ SetRun(i, [runs[i] EXCEPT !.pc = "threw", !.mv = "none"])
    /\ UNCHANGED <<clk, tz, xdev, ingestVars, dirVars, lastBatchRun, suffixes, skipLog, faults>>

-----------------------------------------------------------------------------
(* GET /api/stats                                                          *)

\* the default the route answers with when there is no status file
Unknown == [status |-> "unknown"]

\* FilesystemManager.readJsonFile as the route uses it: null (and so the
\* default) when the file does not exist, the parsed record, or the 500 answer
\* when JSON.parse throws
readJsonFile(content) ==
    IF content = NoStatus THEN Unknown
    ELSE IF "partial" \in DOMAIN content THEN [error |-> "Failed to retrieve statistics"]
    ELSE content

\* the route reads the status file
ReadStats ==
    /\ ~Busy
    /\ lastBatchRun' = readJsonFile(statusFile)
    /\ UNCHANGED <<clk, tz, xdev, ingestVars, dirVars, statusFile, statusTmp, isProcessing,
                   runs, suffixes, skipLog, faults>>

-----------------------------------------------------------------------------
(* Specifications *)

InitAt(start, zones, volumes) ==
    /\ clk = start
    /\ tz \in zones
    /\ xdev \in volumes
    /\ recentRequests = <<>>
    /\ timestampCounters = EmptyMap
    /\ reqs = <<>>
    /\ incoming = EmptyDir
    /\ processing = EmptyDir
    /\ failed = EmptyDir
    /\ statusFile = NoStatus
    /\ statusTmp = NoStatus
    /\ lastBatchRun = NotRead
    /\ storage = {}
    /\ isProcessing = FALSE
    /\ runs = <<>>
    /\ faults = 0
    /\ suffixes = 0
    /\ skipLog = 0

InitWith(zones, volumes) == InitAt(0, zones, volumes)

\* the lines devices send in the pipeline specification
PipeLines == {LCur, LNoTs}

\* the lines devices send in the ingestion specification
IngestLines == {LBoot, LReady, LCur, LBadMonth, LNoTs, LEmpty}

Upload(lines, maxLines) ==
    \/ BeginUpload
    \/ \E r \in DOMAIN reqs : \E line \in lines : ParseLine(r, line, maxLines)
    \/ \E r \in DOMAIN reqs : EndOfContent(r)
    \/ \E r \in DOMAIN reqs : \E f \in reqs[r].pending : AppendDone(r, f)
    \/ \E r \in DOMAIN reqs : \E f \in reqs[r].pending : AppendFail(r, f)

Sweep(i) ==
    \/ \E adv \in {0, 1} : SweepList(i, adv)
    \/ SweepRename(i)
    \/ SweepRenameFail(i)
    \/ SweepCopy(i)
    \/ SweepCopyFail(i)
    \/ SweepUnlink(i)
    \/ SweepUnlinkFail(i)

ProcessFile(i) ==
    \/ Compress(i)
    \/ CompressFail(i)
    \/ UploadOk(i)
    \/ UploadRetry(i)
    \/ \E gzRemoved \in BOOLEAN : UploadGiveUp(i, gzRemoved)
    \/ Cleanup(i)
    \/ \E srcFails \in BOOLEAN : CleanupFail(i, srcFails)

HandleFailedFile(i) ==
    \/ QuarantineRename(i)
    \/ QuarantineRenameFail(i)
    \/ QuarantineMissing(i)
    \/ QuarantineCopy(i)
    \/ QuarantineCopyFail(i)
    \/ QuarantineUnlink(i)
    \/ QuarantineUnlinkFail(i)
    \/ WriteMeta(i)
    \/ WriteMetaFail(i)

Cycle ==
    \/ Trigger
    \/ \E i \in DOMAIN runs :
          \/ WriteTemp(i)
          \/ WriteTempDone(i)
          \/ StatusRunning(i)
          \/ StatusRunningFail(i)
          \/ Sweep(i)
          \/ ProcessFile(i)
          \/ HandleFailedFile(i)
          \/ FinalStatus(i)
          \/ FinalStatusFail(i)
          \/ CriticalStatus(i)
          \/ CriticalStatusFail(i)

\* the deployed system: the line-by-line upload route and the cron cycle
Init == InitWith({0}, BOOLEAN)

Next == Tick \/ Upload(PipeLines, MaxPipeLines) \/ Cycle

Spec == Init /\ [][Next]_vars

\* the cycle alone, over a buffer that holds files when the process starts:
\* the file of an earlier hour and a file whose name lacks the hour segment
FOld == LogName(<<2026, 9, 4, 22>>)

FBad == LogName(<<2026, 9, 4>>)

RecordOf(line) ==
    [device_id |-> DeviceId, log_timestamp |-> toISOString(ClockAt(0)), message |-> line]

\* the process starts with the files of `buffer` in incoming
InitHolding(buffer) ==
    /\ clk = 0
    /\ tz = 0
    /\ xdev \in BOOLEAN
    /\ recentRequests = <<>>
    /\ timestampCounters = EmptyMap
    /\ reqs = <<>>
    /\ incoming = buffer
    /\ processing = EmptyDir
    /\ failed = EmptyDir
    /\ statusFile = NoStatus
    /\ statusTmp = NoStatus
    /\ lastBatchRun = NotRead
    /\ storage = {}
    /\ isProcessing = FALSE
    /\ runs = <<>>
    /\ faults = 0
    /\ suffixes = 0
    /\ skipLog = 0

InitCycle ==
    InitHolding(PutFile(PutFile(EmptyDir, FOld, <<RecordOf(LCur)>>), FBad, <<RecordOf(LNoTs)>>))

NextCycle == Tick \/ Cycle

\* the cycle alone, over a buffer that holds the file of an earlier hour and
\* the file of the hour in which the process starts
FNow == LogName(<<2026, 9, 4, 23>>)

InitSweep ==
    InitHolding(PutFile(PutFile(EmptyDir, FOld, <<RecordOf(LCur)>>), FNow, <<RecordOf(LNoTs)>>))

SpecSweep == InitSweep /\ [][NextCycle]_vars

\* the cycle alone, with a client that polls GET /api/stats
SpecStatus == InitCycle /\ [][NextCycle \/ ReadStats]_vars

SpecCycle == InitCycle /\ [][NextCycle]_vars

\* the cycle alone, with a storage service whose replies can get lost
LostReply == \E i \in DOMAIN runs : UploadLostRetry(i) \/ UploadLostGiveUp(i)

SpecLostReply == InitCycle /\ [][NextCycle \/ LostReply]_vars

\* the cycle alone with the scheduler at work: cron keeps firing and every
\* started step of a cycle comes to an end
SpecCycleFair == SpecCycle /\ WF_vars(Cycle)

\* the upload route under traffic that stops for up to an hour
SpecRate == InitWith({0}, {FALSE}) /\ [][Elapse \/ Upload(PipeLines, MaxPipeLines)]_vars

\* the single-line route under traffic that stops for up to an hour
CounterLines == {LCur, LBoot, LBadMonth, LNoTs}

NextCounters == Elapse \/ \E line \in CounterLines : LegacyUpload(line)

SpecCounters == InitWith({0, SourceOffsetHours}, {FALSE}) /\ [][NextCounters]_vars

\* the upload route under a burst: submissions that start with MaxBurst copies
\* of one line
BurstLines == {LBoot, LNoTs}

NextBurst ==
    \/ Tick
    \/ BeginUpload
    \/ \E r \in DOMAIN reqs : \E line \in BurstLines : ParseBurst(r, line)
    \/ \E r \in DOMAIN reqs : \E line \in BurstLines : ParseAfterBurst(r, line)
    \/ \E r \in DOMAIN reqs : EndOfContent(r)
    \/ \E r \in DOMAIN reqs : \E f \in reqs[r].pending : AppendDone(r, f)
    \/ \E r \in DOMAIN reqs : \E f \in reqs[r].pending : AppendFail(r, f)

SpecBurst == InitWith({0}, {FALSE}) /\ [][NextBurst]_vars

\* the upload route when the lines of one second outnumber the milliseconds:
\* submissions of MaxBurst copies of a line, then lines of that second or of
\* the next one
OverflowLines == {LBoot, LNext}

NextOverflow ==
    \/ BeginUpload
    \/ \E r \in DOMAIN reqs : ParseBurst(r, LBoot)
    \/ \E r \in DOMAIN reqs : \E line \in OverflowLines : ParseTail(r, line)
    \/ \E r \in DOMAIN reqs : EndOfContent(r)
    \/ \E r \in DOMAIN reqs : \E f \in reqs[r].pending : AppendDone(r, f)
    \/ \E r \in DOMAIN reqs : \E f \in reqs[r].pending : AppendFail(r, f)

SpecOverflow == InitWith({0}, {FALSE}) /\ [][NextOverflow]_vars

\* the upload route around the turn of the year: the clock point of
\* 2026-12-31T23:59:59Z, 118 days after point 0, and the second after it
NewYearEve == 2 * 24 * 118

TurnOfYear ==
    /\ clk < NewYearEve + MaxTick
    /\ clk' = clk + 1
    /\ UNCHANGED <<tz, xdev, ingestVars, dirVars, cycleVars, faults>>

NewYearLines == {LBoot, LNoTs}

SpecNewYear ==
    /\ InitAt(NewYearEve, {0, SourceOffsetHours}, {FALSE})
    /\ [][TurnOfYear \/ Upload(NewYearLines, MaxLines)]_vars

\* the ingestion side alone, on a server in UTC or in the devices' timezone:
\* both upload routes, any of the sample lines
InitIngest == InitWith({0, SourceOffsetHours}, {FALSE})

NextIngest ==
    \/ Tick
    \/ Upload(IngestLines, MaxLines)
    \/ \E line \in IngestLines : LegacyUpload(line)

SpecIngest == InitIngest /\ [][NextIngest]_vars

-----------------------------------------------------------------------------
(* Vocabulary of the properties *)

Range(seq) == {seq[k] : k \in DOMAIN seq}

\* the records a request has appended: the groups of its resolved appends
AppendedBy(req) == UNION {Range(EntriesFor(req, f)) : f \in req.done}

\* the data files of a directory: bucket files and compressed artifacts
DataFiles(dir) == {f \in DOMAIN dir : f.ext \in {"log", "log.gz"}}

\* a record is held somewhere in the buffer or in storage
Held(e) ==
    \/ \E f \in DataFiles(incoming) : e \in Range(incoming[f])
    \/ \E f \in DataFiles(processing) : e \in Range(processing[f])
    \/ \E f \in DataFiles(failed) : e \in Range(failed[f])
    \/ \E o \in storage : e \in Range(o.body)

\* the file of bucket f has left incoming/ (it is in processing/ or failed/, or
\* an object of that bucket has been uploaded)
Relocated(f) ==
    \/ HasFile(processing, f)
    \/ HasFile(failed, f)
    \/ \E o \in storage : o.key.file = f.key

\* this step appends to incoming/f
AppendsTo(f) ==
    /\ HasFile(incoming', f)
    /\ \/ ~HasFile(incoming, f)
       \/ Len(incoming'[f]) > Len(incoming[f])

AllNames == DOMAIN incoming \cup DOMAIN incoming' \cup DOMAIN processing \cup DOMAIN failed

\* a run that is between its guard and its finally
Active(run) == run.pc \notin {"skipped", "done", "threw"}

ActiveRuns == {i \in DOMAIN runs : Active(runs[i])}

-----------------------------------------------------------------------------
(* C1: no data loss across stage hand-offs: every record that was          *)
(* successfully appended to a bucket file is held in a file of incoming,   *)
(* processing or failed, or in an uploaded storage object.                 *)
C1_NoDataLoss ==
    \A r \in DOMAIN reqs : \A e \in AppendedBy(reqs[r]) : Held(e)

(* C2: a bucket file is never swept while it still receives writes: no     *)
(* append to bucket K happens during or after the relocation of K's file   *)
(* out of incoming.                                                        *)
C2_NoAppendAfterSweep ==
    [][\A f \in AllNames : Relocated(f) => ~AppendsTo(f)]_vars

(* C3: a sweep never selects for relocation the file whose bucket key is   *)
(* the hour key of the time at which the sweep is invoked.                 *)
C3_SweepSkipsCurrentHour ==
    [][\A i \in DOMAIN runs :
          (runs[i].pc = "sweep" /\ runs'[i].pc # "sweep")
             => \A k \in DOMAIN runs'[i].incomingFiles :
                   runs'[i].incomingFiles[k].key # getHourKey(Now)]_vars

-----------------------------------------------------------------------------
(* Event times: what a line says about when it happened, read off the     *)
(* line alone                                                              *)

\* the line starts with "Mon DD HH:MM:SS" and Mon is a month
HasEventTime(line) == line.match /\ \E m \in 1..12 : Months[m] = line.mon

\* the line is not blank and has no event time
Unparseable(line) == line.text # "" /\ ~HasEventTime(line)

\* two lines carry the same second
SameSecond(a, b) ==
    /\ HasEventTime(a) /\ HasEventTime(b)
    /\ <<a.mon, a.day, a.hh, a.mm, a.ss>> = <<b.mon, b.day, b.hh, b.mm, b.ss>>

\* the instant a line's prefix names: a time of day at the devices' offset,
\* in the year of the clock
EventInstant(line) ==
    LET m == CHOOSE k \in 1..12 : Months[k] = line.mon
    IN  [sec |-> DateUTC(2026, m - 1, line.day, line.hh, line.mm, line.ss)
                   - SourceOffsetHours * SecPerHour,
         ms  |-> 0]

\* the hour of an instant as the server's calendar shows it
HourOf(inst) ==
    LET f == FieldsOf(inst.sec + tz * SecPerHour) IN <<f.Y, f.Mo, f.D, f.h>>

BatchRequests == {r \in DOMAIN reqs : reqs[r].route = "batch"}

\* the clock readings so far
Readings == {toISOString(ClockAt(c)) : c \in 0..clk}

-----------------------------------------------------------------------------
(* C4: in one submission to processLogContentLineByLine, the lines that   *)
(* share a base second get the sequence indices 0..N-1 in input order: the *)
(* index of a line is the number of earlier lines of its second.           *)
C4_SequenceIndices ==
    \A r \in BatchRequests :
      \A k \in DOMAIN reqs[r].entries :
        LET e == reqs[r].entries[k]
            earlier == {j \in 1..(k - 1) :
                          SameSecond(reqs[r].entries[j].entry.message, e.entry.message)}
        IN  HasEventTime(e.entry.message)
              => /\ e.hint = Cardinality(earlier)
                 /\ e.entry.log_timestamp.ms = Cardinality(earlier)

\* a submission of two lines of one second has been numbered
C4_Witness ==
    \E r \in BatchRequests :
      /\ Len(reqs[r].entries) = 2
      /\ SameSecond(reqs[r].entries[1].entry.message, reqs[r].entries[2].entry.message)
      /\ reqs[r].entries[1].hint = 0
      /\ reqs[r].entries[2].hint = 1

(* C5 (as stated): when the upload of a file has failed for good, then     *)
(* once its failure handling is over the upload was retried exactly 3      *)
(* times, the file is in failed with a sidecar whose retry_attempts is 3,  *)
(* and neither the file nor its compressed artifact is in processing.      *)
QuarantineOver(i) ==
    /\ runs[i].pc = "quarantine"
    /\ runs[i].error = "upload failed"
    /\ runs'[i].pc # "quarantine"

Quarantined(i) ==
    LET f == ProcFile(i)
    IN  /\ runs[i].retryCount = 3
        /\ HasFile(failed', f)
        /\ HasFile(failed', MetaName(f))
        /\ failed'[MetaName(f)].retry_attempts = 3
        /\ ~HasFile(processing', f)
        /\ ~HasFile(processing', GzName(f))

C5_QuarantineAlways ==
    [][\A i \in DOMAIN runs : QuarantineOver(i) => Quarantined(i)]_vars

(* C5 (amended): the same, provided no file operation has failed: the      *)
(* removal of the compressed artifact, the move to failed and the write of *)
(* the sidecar are best-effort, and a failure of one of them is only       *)
(* logged.                                                                 *)
C5_QuarantineAfterRetries ==
    [][\A i \in DOMAIN runs : (QuarantineOver(i) /\ faults' = 0) => Quarantined(i)]_vars

\* a file has been quarantined after its upload failed, with no other failure
C5_Witness ==
    \E i \in DOMAIN runs :
      /\ runs[i].error = "upload failed"
      /\ runs[i].pc \in {"final", "done"}
      /\ runs[i].retryCount = 3
      /\ faults = 0
      /\ \E f \in DOMAIN failed : f.ext = "log.meta" /\ failed[f].retry_attempts = 3

(* C6: starting a cycle while another one is active is a no-op: at most    *)
(* one cycle is active at any time, and the call that finds a cycle active *)
(* changes no directory and does not write the status file, then or later. *)
C6_SingleActiveCycle ==
    [][/\ Cardinality(ActiveRuns') <= 1
       /\ \A i \in DOMAIN runs' \ DOMAIN runs :
            ActiveRuns # {} =>
              /\ runs'[i].pc = "skipped"
              /\ UNCHANGED <<incoming, processing, failed, storage, statusFile>>
       /\ \A i \in DOMAIN runs : runs[i].pc = "skipped" => runs'[i] = runs[i]]_vars

\* a call has been skipped while a cycle is active
C6_Witness ==
    /\ ActiveRuns # {}
    /\ \E i \in DOMAIN runs : runs[i].pc = "skipped"

(* C7: a submission that fails has appended none of its lines to any       *)
(* bucket file.                                                            *)
C7_AtomicSubmission ==
    \A r \in DOMAIN reqs : reqs[r].state = "failed" => AppendedBy(reqs[r]) = {}

(* C8 (as stated): the bucket of every accepted line comes from its event  *)
(* time and never from the time it was received: a line with an event time *)
(* is filed under the hour of that time, and a line is filed under the     *)
(* same bucket whenever it is received.                                    *)
FiledByEventTime(e) ==
    HasEventTime(e.entry.message) => e.file = LogName(HourOf(EventInstant(e.entry.message)))

BatchEntries == UNION {Range(reqs[r].entries) : r \in BatchRequests}

C8_BucketFromEventTime ==
    /\ \A e \in BatchEntries : FiledByEventTime(e)
    /\ \A a, b \in BatchEntries : a.entry.message = b.entry.message => a.file = b.file

(* C8 (amended): the same for the lines that carry an event time; a line   *)
(* without one is filed under the hour in which it was received.           *)
C8_BucketFromEventTimeIfAny ==
    /\ \A e \in BatchEntries : FiledByEventTime(e)
    /\ \A a, b \in BatchEntries :
          (HasEventTime(a.entry.message) /\ a.entry.message = b.entry.message)
             => a.file = b.file
    /\ \A r \in BatchRequests : \A k \in DOMAIN reqs[r].entries :
          LET e == reqs[r].entries[k]
          IN  ~HasEventTime(e.entry.message)
                => \E c \in 0..clk : e.file = LogName(HourOf(ClockAt(c)))

\* a line has been accepted into the bucket of its event time, which is the
\* hour of no clock reading so far
C8_Witness ==
    \E r \in BatchRequests : \E k \in DOMAIN reqs[r].entries :
      LET e == reqs[r].entries[k]
      IN  /\ reqs[r].state = "accepted"
          /\ HasEventTime(e.entry.message)
          /\ e.file = LogName(HourOf(EventInstant(e.entry.message)))
          /\ \A c \in 0..clk : e.file # LogName(HourOf(ClockAt(c)))

(* C9 (as stated): submitting "Sep 04 12:53:01 unit-a boot" and            *)
(* "Sep 04 12:53:01 unit-a ready" in one request yields two records, in    *)
(* that order, in the bucket file of Sep 04 hour 12 of the current year,   *)
(* with log_timestamp milliseconds 000 and 001.                            *)
BootReady(r) ==
    /\ r \in BatchRequests
    /\ reqs[r].raw = <<LBoot, LReady>>
    /\ reqs[r].state = "accepted"

\* file `name` of incoming holds a record of `boot` at .000 and, right after
\* it, a record of `ready` at .001 of the same second
BootThenReady(name) ==
    /\ HasFile(incoming, name)
    /\ \E k \in 1..(Len(incoming[name]) - 1) :
         LET a == incoming[name][k]
             b == incoming[name][k + 1]
         IN  /\ a.message = LBoot /\ b.message = LReady
             /\ a.log_timestamp.ms = 0 /\ b.log_timestamp.ms = 1
             /\ SecondKeyOf(a.log_timestamp) = SecondKeyOf(b.log_timestamp)

KeptWithClock(r) ==
    LET lines == SelectSeq(reqs[r].raw, LAMBDA l : l.text # "")
    IN  /\ reqs[r].state # "rejected"
        /\ Len(reqs[r].entries) = Len(lines)
        /\ \A k \in DOMAIN lines :
             Unparseable(lines[k]) =>
               /\ reqs[r].entries[k].entry.message = lines[k]
               /\ reqs[r].entries[k].entry.log_timestamp \in Readings
               /\ reqs[r].state = "accepted" =>
                    /\ HasFile(incoming, reqs[r].entries[k].file)
                    /\ reqs[r].entries[k].entry \in Range(incoming[reqs[r].entries[k].file])

-----------------------------------------------------------------------------
(* C11 (as stated): a file of processing whose name does not match         *)
(* YYYY-MM-DD-HH.log is never uploaded, and once its failure handling is   *)
(* over it is in failed, no longer in processing, with a sidecar whose     *)
(* error_message names the invalid file name.                              *)
NoInvalidUpload == \A o \in storage' : Len(o.key.file) = 4

HandlingOver(i) ==
    /\ runs[i].pc = "quarantine"
    /\ runs'[i].pc # "quarantine"
    /\ ~ValidName(ProcFile(i))

InvalidQuarantined(i) ==
    LET f == ProcFile(i)
    IN  /\ HasFile(failed', f)
        /\ ~HasFile(processing', f)
        /\ HasFile(failed', MetaName(f))
        /\ failed'[MetaName(f)].error_message = "invalid filename"

C11_InvalidNameAlwaysQuarantined ==
    [][/\ NoInvalidUpload
       /\ \A i \in DOMAIN runs : HandlingOver(i) => InvalidQuarantined(i)]_vars

(* C11 (amended): such a file is never uploaded, and it ends in failed     *)
(* with that sidecar provided no file operation has failed: the move to    *)
(* failed and the write of the sidecar are best-effort, a failure of one   *)
(* of them is only logged.                                                 *)
C11_InvalidNameQuarantined ==
    [][/\ NoInvalidUpload
       /\ \A i \in DOMAIN runs :
            (HandlingOver(i) /\ faults' = 0) => InvalidQuarantined(i)]_vars

\* the file without hour segment has been quarantined and nothing of it uploaded
C11_Witness ==
    /\ HasFile(failed, FBad)
    /\ HasFile(failed, MetaName(FBad))
    /\ failed[MetaName(FBad)].error_message = "invalid filename"
    /\ ~HasFile(processing, FBad)
    /\ \A o \in storage : o.key.file # FBad.key

(* C12: a cycle reports its failures through the status file and never     *)
(* throws to its caller: no invocation of run() ends with an exception,    *)
(* whatever fails.                                                         *)
C12_RunNeverThrows ==
    \A i \in DOMAIN runs : runs[i].pc # "threw"

(* C13: a failure inside the quarantine step of one file does not abort    *)
(* the cycle: when the step is over, however it ended, the cycle goes on   *)
(* with the next swept file, or with its final status write when there is  *)
(* none; and the final status write is reached only after every swept file *)
(* has been dealt with.                                                    *)
C13_QuarantineFailureIsolated ==
    [][\A i \in DOMAIN runs :
         /\ (runs[i].pc = "quarantine" /\ runs'[i].pc # "quarantine") =>
              IF runs[i].j < Len(runs[i].sweptFiles)
              THEN runs'[i].pc = "compress" /\ runs'[i].j = runs[i].j + 1
              ELSE runs'[i].pc = "final"
         /\ (runs[i].pc # "final" /\ runs'[i].pc = "final") =>
              runs'[i].j = Len(runs'[i].sweptFiles)]_vars

\* the sidecar write of the first of two swept files failed, the second file
\* was uploaded and the cycle wrote its final status
C13_Witness ==
    \E i \in DOMAIN runs :
      /\ runs[i].pc = "done"
      /\ Len(runs[i].sweptFiles) = 2
      /\ HasFile(failed, runs[i].sweptFiles[1])
      /\ ~HasFile(failed, MetaName(runs[i].sweptFiles[1]))
      /\ \E o \in storage : o.key.file = runs[i].sweptFiles[2].key
      /\ statusFile.status = "failed"
      /\ "files_processed" \in DOMAIN statusFile
      /\ statusFile.files_processed = 1

(* C14 (as stated): the last status a cycle writes is success if and only  *)
(* if no swept file failed processing, and failed otherwise; its           *)
(* files_processed is the number of swept files that were uploaded and     *)
(* removed from processing in that cycle.                                  *)
Ends(i) == runs[i].pc # "done" /\ runs'[i].pc = "done"

StatusTellsFailures(i) ==
    statusFile'.status = (IF runs[i].thrown = {} THEN "success" ELSE "failed")

\* the swept files of run i that were put into storage and are gone from processing
UploadedFiles(i) ==
    {j \in runs[i].put : /\ ~HasFile(processing', runs[i].sweptFiles[j])
                         /\ ~HasFile(processing', GzName(runs[i].sweptFiles[j]))}

Sequenced == {r \in DOMAIN reqs : reqs[r].route = "legacy" /\ reqs[r].state # "rejected"}

C15_LegacyCounters ==
    \A q, r \in Sequenced :
      (q < r /\ reqs[q].entries[1].secondKey = reqs[r].entries[1].secondKey)
         => reqs[q].entries[1].hint < reqs[r].entries[1].hint

(* C16: the ingestion path answers (accepted) only after every append of   *)
(* the submission has completed: when a submission is reported successful  *)
(* no append of it is outstanding and all its records are in their         *)
(* incoming bucket files.                                                  *)
C16_ResponseAfterAppends ==
    \A r \in DOMAIN reqs :
      reqs[r].state = "accepted" =>
        /\ reqs[r].pending = {}
        /\ reqs[r].done = FilesOf(reqs[r])
        /\ \A k \in DOMAIN reqs[r].entries :
             /\ HasFile(incoming, reqs[r].entries[k].file)
             /\ reqs[r].entries[k].entry \in Range(incoming[reqs[r].entries[k].file])

\* a submission that spans two bucket files has been reported successful
C16_Witness ==
    \E r \in DOMAIN reqs :
      /\ reqs[r].state = "accepted"
      /\ Cardinality(FilesOf(reqs[r])) = 2
      /\ \A f \in FilesOf(reqs[r]) : HasFile(incoming, f)

(* C17: every bucket file that is in processing eventually leaves it       *)
(* (uploaded and deleted, or moved to failed), as long as cycles keep      *)
(* being triggered: a file that is in processing while no cycle is active  *)
(* and another cycle is still to come is eventually gone from processing.  *)
CycleToCome == ~isProcessing /\ Len(runs) < MaxRuns

C17_ProcessingDrains ==
    \A f \in {FOld, FBad} :
      (HasFile(processing, f) /\ CycleToCome) ~> ~HasFile(processing, f)

(* C18: a quarantined file and its sidecar, once both are in failed, are   *)
(* never overwritten or changed afterwards.                                *)
C18_SidecarImmutable ==
    [][\A f \in DOMAIN failed :
         (f.ext = "log" /\ HasFile(failed, MetaName(f))) =>
            /\ HasFile(failed', f) /\ failed'[f] = failed[f]
            /\ HasFile(failed', MetaName(f))
            /\ failed'[MetaName(f)] = failed[MetaName(f)]]_vars

(* C19: the ingestion-rate read returns, whenever it is called, the number *)
(* of ingestion calls of the last 5 minutes divided by 5 (in tenths: twice *)
(* that number), however long ago the last call was.                       *)
CallsInWindow ==
    {r \in DOMAIN reqs : reqs[r].receivedAt.sec > Now.sec - 5 * 60}

C19_IngestionRate ==
    ~Busy => getIngestionRate(recentRequests) = 2 * Cardinality(CallsInWindow)

(* C20 (as stated): getTimestampFromLog is deterministic: the same raw     *)
(* line with the same sequence hint always gives the same output, whenever *)
(* it is called.                                                           *)
Normalized == {e \in BatchEntries : HasEventTime(e.entry.message)}

SameInput(a, b) == a.entry.message = b.entry.message /\ a.hint = b.hint

C20_Deterministic ==
    \A a, b \in Normalized : SameInput(a, b) => a.entry.log_timestamp = b.entry.log_timestamp

(* C20 (amended): the same raw line with the same sequence hint gives the  *)
(* same output in calls made in the same calendar year of the server: the  *)
(* year of the output is taken from the clock at the time of the call.     *)
YearAt(inst) == FieldsOf(inst.sec + tz * SecPerHour).Y

C20_DeterministicWithinYear ==
    \A a, b \in Normalized :
      (SameInput(a, b) /\ YearAt(a.at) = YearAt(b.at))
         => a.entry.log_timestamp = b.entry.log_timestamp

\* the same line with the same hint has been normalized at two different times
C20_Witness ==
    \E a, b \in Normalized :
      /\ SameInput(a, b)
      /\ a.at # b.at
      /\ YearAt(a.at) = YearAt(b.at)
      /\ a.entry.log_timestamp = b.entry.log_timestamp


-----------------------------------------------------------------------------
(* C21: the sweep isolates relocation failures: a listed file whose move   *)
(* fails is left in incoming with its content and the sweep goes on with   *)
(* the next listed file; a file is added to the returned list exactly when *)
(* its move succeeded (it is gone from incoming and is in processing with  *)
(* its content), so that at the end of the sweep the returned list is the  *)
(* set of listed files that are in processing and no longer in incoming.   *)
MoveOver(i) ==
    /\ runs[i].pc = "move"
    /\ runs'[i].pc # "move" \/ runs'[i].i # runs[i].i

MovedOn(i) ==
    IF runs[i].i < Len(runs[i].incomingFiles)
    THEN runs'[i].pc = "move" /\ runs'[i].i = runs[i].i + 1
    ELSE runs'[i].pc \in {"compress", "final"}

MovedFiles(i) ==
    {f \in Range(runs'[i].incomingFiles) : ~HasFile(incoming', f) /\ HasFile(processing', f)}

C21_SweepIsolatesFailures ==
    [][\A i \in DOMAIN runs :
         MoveOver(i) =>
           LET f == SweepFile(i)
           IN  /\ MovedOn(i)
               /\ IF ~HasFile(incoming', f)
                  THEN /\ runs'[i].sweptFiles = Append(runs[i].sweptFiles, f)
                       /\ HasFile(processing', f)
                       /\ processing'[f] = incoming[f]
                  ELSE /\ runs'[i].sweptFiles = runs[i].sweptFiles
                       /\ incoming'[f] = incoming[f]
               /\ runs'[i].pc # "move" => Range(runs'[i].sweptFiles) = MovedFiles(i)]_vars

\* the move of the first listed file failed, the second one was moved and is
\* the only file of the returned list
C21_Witness ==
    \E i \in DOMAIN runs :
      /\ runs[i].pc \notin {"sweep", "move"}
      /\ Len(runs[i].incomingFiles) = 2
      /\ runs[i].sweptFiles = <<runs[i].incomingFiles[2]>>
      /\ HasFile(incoming, runs[i].incomingFiles[1])
      /\ ~HasFile(incoming, runs[i].incomingFiles[2])


-----------------------------------------------------------------------------
(* C22: the status file is overwritten atomically: the status path holds   *)
(* no file or a complete record at any time, every change of it installs   *)
(* in one step the complete record that was written to the temporary file, *)
(* and a reader of the status path (GET /api/stats) gets the answer for no *)
(* file or the complete record that the path holds at that time, never a   *)
(* partly written one.                                                     *)
Complete(content) ==
    /\ "status" \in DOMAIN content
    /\ content.status \in {"running", "success", "failed"}

C22_AtomicStatus ==
    [][/\ statusFile' = NoStatus \/ Complete(statusFile')
       /\ statusFile' # statusFile => statusFile' = statusTmp
       /\ lastBatchRun' # lastBatchRun =>
            /\ lastBatchRun' = Unknown \/ Complete(lastBatchRun')
            /\ lastBatchRun' = statusFile \/ (statusFile = NoStatus /\ lastBatchRun' = Unknown)]_vars

\* a reader has got the complete previous record while the next one is being
\* written to the temporary file
C22_Witness ==
    /\ "partial" \in DOMAIN statusTmp
    /\ Complete(statusFile)
    /\ lastBatchRun = statusFile
    /\ statusTmp.partial.status # statusFile.status


-----------------------------------------------------------------------------
(* C23: a cycle holds its exclusion guard until it has run to completion:  *)
(* isProcessing is set as long as an invocation of run() is between its    *)
(* guard and its end (status writes, sweep, compression, upload attempts   *)
(* and retry delays, quarantine), the step that ends the invocation clears *)
(* it, whether the cycle succeeded, failed or threw, and every cycle that  *)
(* has started eventually ends with the guard released.                    *)
C23_GuardHeld ==
    /\ [](\A i \in DOMAIN runs : Active(runs[i]) => isProcessing)
    /\ [][\A i \in DOMAIN runs :
            (Active(runs[i]) /\ ~Active(runs'[i])) => ~isProcessing']_vars
    /\ \A i \in 1..MaxRuns :
         (i \in DOMAIN runs /\ Active(runs[i]))
            ~> (i \in DOMAIN runs /\ ~Active(runs[i]) /\ ~isProcessing)

\* a cycle that retried an upload three times and quarantined the file has
\* ended as failed and released the guard
C23_Witness ==
    \E i \in DOMAIN runs :
      /\ runs[i].pc = "done"
      /\ runs[i].status = "failed"
      /\ runs[i].retryCount = 3
      /\ ~isProcessing


-----------------------------------------------------------------------------
(* C24: whatever the upload attempts of a file do, the uploader makes at   *)
(* most 4 of them in a cycle: the upload of a swept file starts once, with *)
(* retry count 0; an attempt that succeeds ends it; an attempt that fails  *)
(* is retried while the count is below 3, which raises the count by one;   *)
(* the failure of the attempt made at count 3 hands the file, with the     *)
(* error, to the quarantine step and not to the critical-error handler of  *)
(* the cycle. The upload of a file always comes to an end.                 *)
Uploading(i) == i \in DOMAIN runs /\ runs[i].pc = "upload"

AttemptOutcome(i) ==
    \/ /\ runs'[i].pc = "cleanup"
       /\ runs'[i].retryCount = runs[i].retryCount
       /\ runs[i].j \in runs'[i].put
    \/ /\ runs'[i].pc = "upload"
       /\ runs[i].retryCount < 3
       /\ runs'[i].retryCount = runs[i].retryCount + 1
       /\ runs'[i].j = runs[i].j
       /\ storage' = storage
    \/ /\ runs'[i].pc = "quarantine"
       /\ runs[i].retryCount = 3
       /\ runs'[i].error \in {"upload failed", "invalid filename"}
       /\ runs[i].j \in runs'[i].thrown
       /\ storage' = storage

C24_BoundedRetries ==
    /\ [](\A i \in DOMAIN runs : runs[i].retryCount \in 0..3)
    /\ [][\A i \in DOMAIN runs :
            /\ (Uploading(i) /\ runs'[i] # runs[i]) => AttemptOutcome(i)
            /\ (~Uploading(i) /\ runs'[i].pc = "upload") =>
                 /\ runs[i].pc = "compress"
                 /\ runs'[i].retryCount = 0
                 /\ runs[i].j \notin runs[i].put \cup runs[i].thrown]_vars
    /\ \A i \in 1..MaxRuns : Uploading(i) ~> ~Uploading(i)

\* a file has been uploaded by the fourth attempt, after three retries
C24_Witness ==
    \E i \in DOMAIN runs :
      /\ runs[i].retryCount = 3
      /\ runs[i].j \in runs[i].put


-----------------------------------------------------------------------------
(* C25: the sweep selects every bucket file of incoming whose key differs  *)
(* from the current hour key it has computed: the listing is the set of    *)
(* the .log files of incoming with another key, and when every relocation  *)
(* of a sweep has succeeded, the only .log file left in incoming is the    *)
(* one of that key, and every other file is in processing and in the       *)
(* returned list.                                                          *)
Listed(i) == runs[i].pc = "sweep" /\ runs'[i].pc # "sweep"

SweepEnds(i) == runs[i].pc \in {"sweep", "move"} /\ runs'[i].pc \notin {"sweep", "move"}

OtherFiles(dir, key) == {f \in DOMAIN dir : f.ext = "log" /\ f.key # key}

C25_SweepSelectsOthers ==
    [][\A i \in DOMAIN runs :
         /\ Listed(i) =>
              Range(runs'[i].incomingFiles) = OtherFiles(incoming, runs'[i].currentHourKey)
         /\ (SweepEnds(i) /\ runs'[i].sweptFiles = runs'[i].incomingFiles) =>
              /\ OtherFiles(incoming', runs'[i].currentHourKey) = {}
              /\ \A f \in Range(runs'[i].incomingFiles) :
                   HasFile(processing', f) /\ f \in Range(runs'[i].sweptFiles)]_vars

\* a sweep in the hour of FNow has moved the file of the hour before to
\* processing and left the file of the current hour in incoming
C25_Witness ==
    \E i \in DOMAIN runs :
      /\ runs[i].pc \notin {"status_running", "sweep", "move"}
      /\ runs[i].currentHourKey = FNow.key
      /\ runs[i].sweptFiles = <<FOld>>
      /\ HasFile(processing, FOld)
      /\ ~HasFile(incoming, FOld)
      /\ HasFile(incoming, FNow)


-----------------------------------------------------------------------------
(* C26: when a step of processFile fails after compression has started     *)
(* (the upload after its retries, the naming of the object, the cleanup),  *)
(* the compressed artifact is removed before the file is handed to the     *)
(* quarantine step, unless that removal itself fails; and whenever         *)
(* processFile is over for a file, by success or by failure, no .gz of     *)
(* that file is in processing, with the same proviso. The quarantine step  *)
(* creates none.                                                           *)
InProcessFile(run) == run.pc \in {"compress", "upload", "cleanup"}

\* the unlink of the compressed file in the catch of processFile has failed
RemovalFailed(i) == runs[i].pc = "upload" /\ faults' # faults

-----------------------------------------------------------------------------
(* C27 (as stated): after each parseAndEnhanceTimestamp call the           *)
(* process-lifetime counter map holds no second-key older than one hour    *)
(* before the wall-clock time of the call.                                 *)
ParseCall == Len(reqs') > Len(reqs) /\ reqs'[Len(reqs')].route = "legacy"

\* the second a key of the counter map names
KeySecond(key) == DateUTC(key[1], key[2] - 1, key[3], key[4], key[5], key[6])

OldKeys(counters, at) == {k \in DOMAIN counters : KeySecond(k) < at.sec - SecPerHour}

-----------------------------------------------------------------------------
(* C28: for a submission that succeeded, linesProcessed is the number of   *)
(* non-empty input lines and the number of records the submission has      *)
(* appended, one per non-empty line and with the line as message, each     *)
(* bucket file holding the records of its lines as one block in input      *)
(* order; filesWritten is the number of distinct bucket files appended to; *)
(* and the bucket files hold exactly the records of the completed appends. *)
RECURSIVE GroupLens(_, _)
GroupLens(req, files) ==
    IF files = {} THEN 0
    ELSE LET f == CHOOSE x \in files : TRUE
         IN  Len(EntriesFor(req, f)) + GroupLens(req, files \ {f})

RECURSIVE DirLen(_, _)
DirLen(dir, names) ==
    IF names = {} THEN 0
    ELSE LET f == CHOOSE x \in names : TRUE
         IN  Len(dir[f]) + DirLen(dir, names \ {f})

RECURSIVE AppendedCount(_)
AppendedCount(n) ==
    IF n = 0 THEN 0 ELSE GroupLens(reqs[n], reqs[n].done) + AppendedCount(n - 1)

\* `group` is a block of consecutive records of `content`
BlockOf(group, content) ==
    \E o \in 0..(Len(content) - Len(group)) :
       \A k \in DOMAIN group : content[o + k] = group[k]

Succeeded(r) ==
    /\ r \in BatchRequests
    /\ reqs[r].state = "accepted"
    /\ Returned(reqs[r]).success

NonEmpty(raw) == SelectSeq(raw, LAMBDA l : l.text # "")

C28_Counts ==
    /\ DirLen(incoming, DOMAIN incoming) = AppendedCount(Len(reqs))
    /\ \A r \in DOMAIN reqs :
         Succeeded(r) =>
           LET req == reqs[r]
               lines == NonEmpty(req.raw)
           IN  /\ Returned(req).linesProcessed = Len(lines)
               /\ Returned(req).linesProcessed = GroupLens(req, req.done)
               /\ Len(req.entries) = Len(lines)
               /\ \A k \in DOMAIN lines : req.entries[k].entry.message = lines[k]
               /\ Returned(req).filesWritten = Cardinality(req.done)
               /\ \A f \in req.done :
                    HasFile(incoming, f) /\ BlockOf(EntriesFor(req, f), incoming[f])

\* a submission of two lines and an empty line has been stored in two files
C28_Witness ==
    \E r \in DOMAIN reqs :
      /\ Succeeded(r)
      /\ Len(reqs[r].raw) > Len(NonEmpty(reqs[r].raw))
      /\ Returned(reqs[r]).linesProcessed = 1
      /\ Returned(reqs[r]).filesWritten = 1


-----------------------------------------------------------------------------
(* C29: when several submissions append to the same bucket file at the     *)
(* same time, their record groups do not interleave: at any time a bucket  *)
(* file of incoming is the concatenation, in some order, of the whole      *)
(* record groups of the appends to it that have completed, each group      *)
(* being the records of one submission for that bucket in input order.     *)
RECURSIVE GroupsMake(_, _, _)
GroupsMake(content, f, writers) ==
    IF writers = {} THEN content = <<>>
    ELSE \E r \in writers :
           LET group == EntriesFor(reqs[r], f)
           IN  /\ Len(group) <= Len(content)
               /\ SubSeq(content, 1, Len(group)) = group
               /\ GroupsMake(SubSeq(content, Len(group) + 1, Len(content)), f,
                             writers \ {r})

WritersOf(f) == {r \in DOMAIN reqs : f \in reqs[r].done}

C29_GroupsDoNotInterleave ==
    \A f \in DOMAIN incoming : GroupsMake(incoming[f], f, WritersOf(f))

\* two submissions of two records each were appending to the same file at the
\* same time, and the append of the later one has completed first
C29_Witness ==
    \E f \in DOMAIN incoming :
      /\ Len(reqs) = 2
      /\ reqs[1].state = "writing" /\ f \in reqs[1].pending
      /\ reqs[2].state = "accepted" /\ f \in reqs[2].done
      /\ Len(EntriesFor(reqs[1], f)) = 2
      /\ Len(EntriesFor(reqs[2], f)) = 2


-----------------------------------------------------------------------------
(* C30: the millisecond field of the timestamp produced for a line is the  *)
(* sequence hint assigned to the line, and its date and time down to the   *)
(* second are those of the line's own event second, for every hint the     *)
(* sequencing can produce, hints of 1000 and above included.               *)
C30_MillisecondIsHint ==
    \A e \in Normalized :
      /\ e.entry.log_timestamp.ms = e.hint
      /\ SecondKeyOf(e.entry.log_timestamp)
           = SecondKeyOf(toISOString(EventInstant(e.entry.message)))

-----------------------------------------------------------------------------
(* C31: the terminal states of a file are mutually exclusive: a swept file *)
(* that is in failed with a sidecar was not put into storage in that       *)
(* cycle, and a file that was put into storage is, once the cycle has      *)
(* dealt with it, gone from processing together with its compressed        *)
(* artifact and not in failed, also when a removal fails after the upload. *)
DealtWith(i, j) ==
    \/ j < runs[i].j
    \/ j = runs[i].j /\ runs[i].pc \notin {"compress", "upload", "cleanup", "quarantine"}

C31_TerminalStatesExclusive ==
    \A i \in DOMAIN runs : \A j \in DOMAIN runs[i].sweptFiles :
      LET f == runs[i].sweptFiles[j]
      IN  /\ (HasFile(failed, f) /\ HasFile(failed, MetaName(f))) => j \notin runs[i].put
          /\ (j \in runs[i].put /\ DealtWith(i, j)) =>
                /\ ~HasFile(processing, f)
                /\ ~HasFile(processing, GzName(f))
                /\ ~HasFile(failed, f)

-----------------------------------------------------------------------------
(* C32: within one submission, any two parseable lines get different       *)
(* log_timestamp values, and their log_timestamps are ordered as the lines *)
(* are by (event second, input position), however many lines share a       *)
(* second.                                                                 *)
TimestampKey(iso) == <<iso.Y, iso.Mo, iso.D, iso.h, iso.mi, iso.s, iso.ms>>

\* the second a line names, as month, day and time of day
EventSecond(line) ==
    <<CHOOSE k \in 1..12 : Months[k] = line.mon, line.day, line.hh, line.mm, line.ss>>

C32_DistinctAndOrdered ==
    \A r \in BatchRequests :
      LET entries   == reqs[r].entries
          parseable == {k \in DOMAIN entries : HasEventTime(entries[k].entry.message)}
      IN  \A b \in parseable : \A a \in parseable :
            a < b =>
              /\ entries[a].entry.log_timestamp # entries[b].entry.log_timestamp
              /\ KeyLess(TimestampKey(entries[a].entry.log_timestamp),
                         TimestampKey(entries[b].entry.log_timestamp))
                   <=> ~KeyLess(EventSecond(entries[b].entry.message),
                                EventSecond(entries[a].entry.message))

-----------------------------------------------------------------------------
(* C33: across the submissions handled by processLogContentLineByLine, the *)
(* records of one event second that are in the same bucket file have       *)
(* strictly increasing log_timestamp in file order: a later submission     *)
(* never reuses a sequence index an earlier one used for that second.      *)
OnlyBatchSubmissions == BatchRequests = DOMAIN reqs

C33_IndicesNotReused ==
    OnlyBatchSubmissions =>
      \A f \in DataFiles(incoming) :
        \A q \in DOMAIN incoming[f] : \A p \in 1..(q - 1) :
          LET first == incoming[f][p]
              later == incoming[f][q]
          IN  SameSecond(first.message, later.message)
                => KeyLess(TimestampKey(first.log_timestamp),
                           TimestampKey(later.log_timestamp))

-----------------------------------------------------------------------------
(* C34: the retry_attempts of a FailureRecord is the number of upload      *)
(* retries made for that file in the cycle, whatever made the file fail    *)
(* (upload, compression, file name, cleanup).                              *)
SidecarWritten(i) ==
    /\ runs[i].pc = "quarantine"
    /\ runs[i].mv = "meta"
    /\ failed' # failed

C34_RetryAttemptsPerformed ==
    [][\A i \in DOMAIN runs :
         SidecarWritten(i) =>
           failed'[MetaName(ProcFile(i))].retry_attempts = runs[i].retryCount]_vars

-----------------------------------------------------------------------------
(* C35: all upload attempts made for one file within one cycle target the  *)
(* same storage key: while one cycle has run, the objects storage holds    *)
(* for a file all have the same key, so that there is at most one of them, *)
(* also when an attempt that reached storage was reported as failed and    *)
(* retried.                                                                *)
StartedCycles == {i \in DOMAIN runs : runs[i].pc # "skipped"}

C35_OneKeyPerFile ==
    Cardinality(StartedCycles) <= 1 =>
      \A o1, o2 \in storage : o1.key.file = o2.key.file => o1.key = o2.key

-----------------------------------------------------------------------------
(* C36 (as stated): every bucket file in the failed area has its .meta     *)
(* sidecar, at every state a concurrent reader of the failed area can      *)
(* observe, also when the sidecar write fails.                             *)
QuarantinedFiles == {f \in DOMAIN failed : f.ext = "log"}

HasSidecar(f) == \E m \in DOMAIN failed : m.key = f.key /\ m.ext = "log.meta"

C36_SidecarAlways == \A f \in QuarantinedFiles : HasSidecar(f)

(* C36 (amended): a bucket file in the failed area lacks its sidecar only  *)
(* while its quarantine step is between the arrival of the file in failed  *)
(* and the sidecar write, or after a file operation has failed; the move   *)
(* comes first and the sidecar write is best-effort.                       *)
SidecarPending(f) ==
    \E i \in DOMAIN runs :
      /\ runs[i].pc = "quarantine"
      /\ runs[i].mv \in {"unlink", "meta"}
      /\ ProcFile(i) = f

C36_SidecarUnlessPending ==
    \A f \in QuarantinedFiles : HasSidecar(f) \/ SidecarPending(f) \/ faults > 0

\* a quarantine step is over, no file operation has failed, and the file is
\* in failed with its sidecar
C36_Witness ==
    /\ faults = 0
    /\ \E i \in DOMAIN runs :
         /\ runs[i].pc = "done"
         /\ runs[i].thrown # {}
         /\ \E j \in runs[i].thrown :
              /\ runs[i].sweptFiles[j] \in QuarantinedFiles
              /\ HasSidecar(runs[i].sweptFiles[j])

-----------------------------------------------------------------------------
(* C37: whenever the guard is released after at least one cycle has        *)
(* started, the persisted RunStatus is success or failed, never running,   *)
(* also when a status write has failed during the cycle.                   *)
C37_StatusSettled ==
    (~isProcessing /\ StartedCycles # {}) => statusFile.status \in {"success", "failed"}

-----------------------------------------------------------------------------
(* C38: moveFile is all-or-nothing: when a call made for an existing file  *)
(* is over, whether it returned or threw, the file is at exactly one of    *)
(* source and destination, also on the copy-then-delete path. Checked for  *)
(* the calls of the sweep (incoming to processing) and of the quarantine   *)
(* step (processing to failed).                                            *)
MoveSteps == {"rename", "copy", "unlink"}

QuarantineMoveOver(i) ==
    /\ runs[i].pc = "quarantine"
    /\ runs[i].mv \in MoveSteps
    /\ HasFile(processing, ProcFile(i))
    /\ runs'[i].mv \notin MoveSteps

C38_MoveAllOrNothing ==
    [][\A i \in DOMAIN runs :
         /\ MoveOver(i) =>
              HasFile(incoming', SweepFile(i)) # HasFile(processing', SweepFile(i))
         /\ QuarantineMoveOver(i) =>
              HasFile(processing', ProcFile(i)) # HasFile(failed', ProcFile(i))]_vars

-----------------------------------------------------------------------------
(* C39: the single-line path (processLogRequest) and the batch path        *)
(* (processLogContentLineByLine) agree on where a line goes: for the same  *)
(* parseable raw line both assign the same bucket file, and the same event *)
(* second in log_timestamp.                                                *)
LegacyRequests == {r \in DOMAIN reqs : reqs[r].route = "legacy"}

C39_PathsAgree ==
    \A a \in LegacyRequests : \A b \in BatchRequests :
      \A x \in DOMAIN reqs[a].entries : \A y \in DOMAIN reqs[b].entries :
        LET single == reqs[a].entries[x]
            batch  == reqs[b].entries[y]
        IN  (single.entry.message = batch.entry.message /\ HasEventTime(batch.entry.message))
              => /\ single.file = batch.file
                 /\ SecondKeyOf(single.entry.log_timestamp)
                      = SecondKeyOf(batch.entry.log_timestamp)

====
